---- MODULE Spec2Model ----
(***************************************************************************)
(* Model of the constant-product AMM program (pinnochio-amm): the pool     *)
(* configuration record, the four instruction handlers and the ledger      *)
(* they act on (token accounts and the LP mint).                           *)
(***************************************************************************)
EXTENDS Integers, Sequences, FiniteSets, TLC

(***************************************************************************)
(* Bounds of the model.                                                    *)
(***************************************************************************)
\* largest value of an amount / max / min field of a payload
MaxAmt == 2
\* tokens of asset X and of asset Y the funded user owns at the start
InitBal == 2
\* cap on the LP mint's supply
MaxLp == 2
\* the ledger time (unix_timestamp) at which the instructions run
Now == 1
\* largest byte handed to Config::set_state
MaxStateByte == 3

(***************************************************************************)
(* Program constants.                                                      *)
(***************************************************************************)
\* AmmState discriminants
Initialized == 1
Disabled == 2
WithdrawOnly == 3
\* basis-point denominator: fees at or above it are rejected
FeeLimit == 10000
\* decimals handed to the curve by Deposit and Withdraw, and of the LP mint
Decimals == 6

Users == {"u1", "u2"}
\* the user who owns tokens at the start; the other one owns none
Funded == "u1"
Holders == Users \cup {"vault"}
\* fees offered to Initialize and to set_fee: no fee, 50%, the first
\* rejected value and the one above it
Fees == {0, 5000, FeeLimit, FeeLimit + 1}
\* candidate canonical bumps of the program-derived addresses
Bumps == {254, 255}

VARIABLES
  config,      \* the PoolConfig record, or NoConfig before Initialize
  tok,         \* tok[h][a]: balance of asset a ("x","y","lp") held by h
  lp_supply,   \* supply of the liquidity mint
  canon,       \* canon[k]: the bump find_program_address yields for PDA k
  last,        \* the last instruction processed and its outcome
  loan,        \* the flash-loan program: the batch being executed and its ledger
  escrow,      \* the escrow program: the escrow record, its vaults, the last call
  lamports     \* the vault program: lamports of owners and vaults, the last call

vars == <<config, tok, lp_supply, canon, last, loan, escrow, lamports>>

\* no batch of the flash-loan program is being executed
NoLoan == [batch |-> <<>>, pc |-> 0, status |-> "none"]
\* the escrow program and the vault program are not in use
NoEscrow == [status |-> "none"]
NoLamports == [status |-> "none"]

(***************************************************************************)
(* The entrypoint (lib.rs).                                                *)
(***************************************************************************)
\* the DISCRIMINATOR of each instruction
InitializeDiscriminator == 0
DepositDiscriminator == 1
WithdrawDiscriminator == 2
SwapDiscriminator == 3

\* the largest leading byte tried
MaxLead == 5
\* instruction data without a first byte
NoData == 0 - 1
\* the leading byte recorded for what is not called through the entrypoint
Direct == 0 - 2
\* what instruction data may start with
LeadBytes == {NoData} \cup 0..MaxLead

\* process_instruction, were the arms of Deposit and Withdraw exchanged
process_instruction_arms_exchanged(lead) ==
  CASE lead = InitializeDiscriminator -> "Initialize"
    [] lead = DepositDiscriminator -> "Withdraw"
    [] lead = WithdrawDiscriminator -> "Deposit"
    [] lead = SwapDiscriminator -> "Swap"
    [] OTHER -> "Unknown"

\* process_instruction: the handler the first byte of the instruction data
\* selects; the last arm takes empty data and every other byte
process_instruction(lead) ==
  CASE lead = InitializeDiscriminator -> "Initialize"
    [] lead = DepositDiscriminator -> "Deposit"
    [] lead = WithdrawDiscriminator -> "Withdraw"
    [] lead = SwapDiscriminator -> "Swap"
    [] OTHER -> "Unknown"

\* the leading bytes that select the handler op
LeadsTo(op) == {lead \in LeadBytes : process_instruction(lead) = op}

\* thirty-two or eight zero bytes: the authority that means no admin, and
\* every key field of an account not yet written
ZeroBytes == "zero"

\* the seed and the two asset mints the pool's config address is derived
\* from, and an admin key
PoolSeed == "seed"
MintX == "mint_x"
MintY == "mint_y"
Admin == "admin"

NoConfig == [state |-> 0, seed |-> ZeroBytes, authority |-> ZeroBytes,
             mint_x |-> ZeroBytes, mint_y |-> ZeroBytes, fee |-> 0,
             config_bump |-> 0, vault_x_bump |-> 0,
             vault_y_bump |-> 0, mint_lp_bump |-> 0, exists |-> FALSE]

reserve_x == tok["vault"].x
reserve_y == tok["vault"].y

(***************************************************************************)
(* Config (state/state.rs)                                                 *)
(***************************************************************************)
can_withdraw(c) == c.state = Initialized \/ c.state = WithdrawOnly

can_deposit(c) == c.state = Initialized

\* can_swap, were it to let a disabled pool swap
can_swap_disabled_too(c) == c.state = Initialized \/ c.state = Disabled

can_swap(c) == c.state = Initialized

\* Config::set_state: rejects state >= WithdrawOnly, stores anything below
set_state(c, state) ==
  IF state >= WithdrawOnly
    THEN [ok |-> FALSE, err |-> "InvalidAccountData", c |-> c]
    ELSE [ok |-> TRUE, err |-> "Ok", c |-> [c EXCEPT !.state = state]]

\* Config::set_fee, were the limit itself accepted
set_fee_accepts_limit(c, fee) ==
  IF fee > FeeLimit
    THEN [ok |-> FALSE, err |-> "InvalidAccountData", c |-> c]
    ELSE [ok |-> TRUE, err |-> "Ok", c |-> [c EXCEPT !.fee = fee]]

\* Config::set_fee: rejects fee >= 10_000
set_fee(c, fee) ==
  IF fee >= FeeLimit
    THEN [ok |-> FALSE, err |-> "InvalidAccountData", c |-> c]
    ELSE [ok |-> TRUE, err |-> "Ok", c |-> [c EXCEPT !.fee = fee]]

\* Config::set_inner, were the two vault bumps stored in each other's field
set_inner_vault_bumps_crossed(c, state, seed, authority, mint_x, mint_y, fee, config_bump, vault_x_bump, vault_y_bump, mint_lp_bump) ==
  LET s == set_state(c, state) IN
  IF ~s.ok THEN s
  ELSE LET k == [s.c EXCEPT !.seed = seed, !.authority = authority,
                            !.mint_x = mint_x, !.mint_y = mint_y]
           f == set_fee(k, fee)
       IN IF ~f.ok THEN f
          ELSE [ok |-> TRUE, err |-> "Ok",
                c |-> [f.c EXCEPT !.config_bump = config_bump,
                                  !.vault_x_bump = vault_y_bump,
                                  !.vault_y_bump = vault_x_bump,
                                  !.mint_lp_bump = mint_lp_bump]]

\* Config::set_inner: set_state, the plain setters, set_fee, the bump
\* setters; a setter that fails returns at once (the caller's error discards
\* what was written before it, with the account)
set_inner(c, state, seed, authority, mint_x, mint_y, fee, config_bump, vault_x_bump, vault_y_bump, mint_lp_bump) ==
  LET s == set_state(c, state) IN
  IF ~s.ok THEN s
  ELSE LET k == [s.c EXCEPT !.seed = seed, !.authority = authority,
                            !.mint_x = mint_x, !.mint_y = mint_y]
           f == set_fee(k, fee)
       IN IF ~f.ok THEN f
          ELSE [ok |-> TRUE, err |-> "Ok",
                c |-> [f.c EXCEPT !.config_bump = config_bump,
                                  !.vault_x_bump = vault_x_bump,
                                  !.vault_y_bump = vault_y_bump,
                                  !.mint_lp_bump = mint_lp_bump]]

(***************************************************************************)
(* Authority derivation.  An address is the pair of what it is derived     *)
(* from (kind: "config", "mint_lp", "vault_x", "vault_y") and the bump.    *)
(***************************************************************************)
PdaKinds == {"config", "mint_lp", "vault_x", "vault_y"}

Addr(kind, bump) == [kind |-> kind, bump |-> bump]

\* an address that is none of the pool's
Stray == [kind |-> "stray", bump |-> 0]

\* find_program_address: the canonical (highest valid) bump and its address
find_program_address(kind) == [key |-> Addr(kind, canon[kind]), bump |-> canon[kind]]

\* create_program_address: fails above the canonical bump (on-curve), else
\* yields the address for that bump, equal to the canonical one only for
\* the canonical bump
create_program_address(kind, bump) ==
  IF bump > canon[kind] THEN [ok |-> FALSE, key |-> Stray]
  ELSE [ok |-> TRUE, key |-> Addr(kind, bump)]

\* the accounts Initialize created: the config record and the LP mint
ConfigKey == Addr("config", canon["config"])
MintLpKey == Addr("mint_lp", canon["mint_lp"])
VaultXKey == Addr("vault_x", canon["vault_x"])
VaultYKey == Addr("vault_y", canon["vault_y"])

(***************************************************************************)
(* The token program, as the handlers use it through CPI.  A token account *)
(* is named by its holder and asset; the vaults are the associated token   *)
(* accounts of the config address, so their owner is the config address.   *)
(***************************************************************************)
Acct(who, asset) == [who |-> who, asset |-> asset]

Owner(acct) == IF acct.who = "vault" THEN "config" ELSE acct.who

\* marks a CPI issued with invoke() rather than invoke_signed()
NoSeeds == 0 - 1

\* a CPI: kind is "Transfer", "MintTo" or "Burn"; auth is the authority account
\* ("config" or a user); seedbump is the bump of the config signer seeds the
\* CPI is invoked with, or NoSeeds
Cpi(kind, from, to, auth, seedbump, amount) ==
  [kind |-> kind, from |-> from, to |-> to, auth |-> auth,
   seedbump |-> seedbump, amount |-> amount]

\* the accounts that count as signers of a CPI: the transaction's signer, and
\* the config address when the signer seeds derive it
SignersOf(c, caller) ==
  {caller} \cup
  (IF c.seedbump # NoSeeds /\ create_program_address("config", c.seedbump).ok
      /\ create_program_address("config", c.seedbump).key = ConfigKey
     THEN {"config"} ELSE {})

\* whether the token program accepts the CPI on ledger S = [tok, lp]
CpiOk(S, c, caller) ==
  /\ c.auth \in SignersOf(c, caller)
  /\ CASE c.kind = "Transfer" ->
            Owner(c.from) = c.auth /\ S.tok[c.from.who][c.from.asset] >= c.amount
       [] c.kind = "MintTo" -> c.auth = "config"
       [] c.kind = "Burn" ->
            Owner(c.from) = c.auth /\ S.tok[c.from.who][c.from.asset] >= c.amount

Credit(t, acct, n) == [t EXCEPT ![acct.who][acct.asset] = @ + n]
Debit(t, acct, n) == [t EXCEPT ![acct.who][acct.asset] = @ - n]

\* the ledger after an accepted CPI
CpiEffect(S, c) ==
  CASE c.kind = "Transfer" ->
         [tok |-> Credit(Debit(S.tok, c.from, c.amount), c.to, c.amount), lp |-> S.lp]
    [] c.kind = "MintTo" ->
         [tok |-> Credit(S.tok, c.to, c.amount), lp |-> S.lp + c.amount]
    [] c.kind = "Burn" ->
         [tok |-> Debit(S.tok, c.from, c.amount), lp |-> S.lp - c.amount]

\* runs the CPIs in order, each followed by `?`: stops at the first one the
\* token program rejects.  n is the number of CPIs issued (the rejected one
\* included), S the ledger as the accepted ones left it.
RECURSIVE Invoke(_, _, _, _)
Invoke(S, cpis, caller, n) ==
  IF cpis = <<>> THEN [ok |-> TRUE, S |-> S, n |-> n]
  ELSE IF ~CpiOk(S, Head(cpis), caller) THEN [ok |-> FALSE, S |-> S, n |-> n + 1]
  ELSE Invoke(CpiEffect(S, Head(cpis)), Tail(cpis), caller, n + 1)

\* the ledger, were the effects of the accepted CPIs kept on an error
KeepPartial(pre, r) == r.S

\* the runtime's atomicity: an instruction that returns an error leaves the
\* ledger as it was before the call
Commit(pre, r) == IF r.ok THEN r.S ELSE pre

(***************************************************************************)
(* Liquidity curve engine (ConstantProduct).                               *)
(***************************************************************************)
\* the fixed-point scale for a number of decimals
Scale(decimals) == 10 ^ decimals

CurveErr == [ok |-> FALSE, x |-> 0, y |-> 0]

\* deposit_amounts after the first deposit: x / reserve_x = y / reserve_y =
\* requested_lp / lp_supply, the ratio taken at the scale and every division
\* truncating; division by lp_supply = 0 fails
xy_deposit_amounts_from_l(x, y, l, a, decimals) ==
  IF l = 0 THEN CurveErr
  ELSE LET ratio == (a * Scale(decimals)) \div l IN
       [ok |-> TRUE,
        x |-> (x * ratio) \div Scale(decimals),
        y |-> (y * ratio) \div Scale(decimals)]

\* withdraw_amounts: the reserves verbatim when the whole supply is burnt,
\* otherwise x = reserve_x * burn_lp / lp_supply (and y alike) in the same
\* fixed-point scheme; lp_supply = 0 and burn_lp > lp_supply fail
xy_withdraw_amounts_from_l(x, y, l, a, decimals) ==
  IF l = 0 \/ a > l THEN CurveErr
  ELSE IF a = l THEN [ok |-> TRUE, x |-> x, y |-> y]
  ELSE LET ratio == (a * Scale(decimals)) \div l IN
       [ok |-> TRUE,
        x |-> (x * ratio) \div Scale(decimals),
        y |-> (y * ratio) \div Scale(decimals)]

\* ConstantProduct::init: the curve over the two reserves, the calibration
\* parameter l and the fee
init(x, y, l, fee) == [ok |-> TRUE, x |-> x, y |-> y, l |-> l, fee |-> fee]

SwapErr == [ok |-> FALSE, deposit |-> 0, withdraw |-> 0]

\* the solution of (reserve_in + net) * (reserve_out - withdraw) =
\* reserve_in * reserve_out for withdraw, truncated
solve_withdraw(rin, rout, net) == (rout * net) \div (rin + net)

\* swap: the fee is taken off the input, the invariant is solved for the
\* amount withdrawn; a division by zero, a zero output and an output below
\* min fail
swap(curve, is_x, a, min) ==
  LET net == (a * (FeeLimit - curve.fee)) \div FeeLimit
      rin == IF is_x THEN curve.x ELSE curve.y
      rout == IF is_x THEN curve.y ELSE curve.x
  IN IF a = 0 \/ rin + net = 0 THEN SwapErr
     ELSE IF solve_withdraw(rin, rout, net) = 0 THEN SwapErr
     ELSE IF solve_withdraw(rin, rout, net) < min THEN SwapErr
     ELSE [ok |-> TRUE, deposit |-> a, withdraw |-> solve_withdraw(rin, rout, net)]

(***************************************************************************)
(* What the handlers share.  A validation yields the error (or "Ok") and   *)
(* the step that produced it.                                              *)
(***************************************************************************)
Fail(res, step) == [res |-> res, step |-> step]
Pass == [res |-> "Ok", step |-> "ok"]

\* the steps of TryFrom (account count and payload) and of Config::load
ParseSteps == {"count", "length", "is_x", "zero", "deadline"}
LoadSteps == {"load_len", "load_owner"}
\* the steps of check from the state check on
CheckSteps == {"state", "vault_x", "vault_y", "mint_lp", "accounts", "curve",
               "slippage", "zero_out"}

\* the accounts that may be passed as config: the pool's record, an account
\* of another length, an account of that length another program owns
ConfigAccts == {"pool", "badlen", "badowner"}

\* Config::load, were the data length not compared
load_any_length(acct) ==
  IF acct = "badowner" THEN Fail("InvalidAccountOwner", "load_owner")
  ELSE Pass

\* Config::load: length first, then owner
load(acct) ==
  IF acct = "badlen" \/ (acct = "pool" /\ ~config.exists)
    THEN Fail("InvalidAccountData", "load_len")
  ELSE IF acct = "badowner" THEN Fail("InvalidAccountOwner", "load_owner")
  ELSE Pass

\* the result of an instruction: the error (or "Ok"), the step that produced
\* it, the ledger it leaves and the CPIs it issued
Outcome(res, step, S, cpis) == [res |-> res, step |-> step, S |-> S, cpis |-> cpis]

Ledger == [tok |-> tok, lp |-> lp_supply]

\* what `last` keeps of an issued CPI: its kind, whether it takes from a vault
\* or from a user account, whether its authority is the config address, the
\* caller or someone else, and whether it carried the config signer seeds
View(c, caller) ==
  [kind |-> c.kind,
   src |-> IF c.kind = "MintTo" THEN "mint"
           ELSE IF c.from.who = "vault" THEN "vault" ELSE "user",
   auth |-> IF c.auth = "config" THEN "config"
            ELSE IF c.auth = caller THEN "caller" ELSE "other",
   seeded |-> c.seedbump # NoSeeds]

Issued(cpis, n, caller) == [i \in 1..n |-> View(cpis[i], caller)]

\* the execute phase: issue the CPIs, keep their effects only if all succeed
Execute(cpis, caller) ==
  LET r == Invoke(Ledger, cpis, caller, 0) IN
  Outcome(IF r.ok THEN "Ok" ELSE "TokenError", IF r.ok THEN "ok" ELSE "cpi",
          Commit(Ledger, r), Issued(cpis, r.n, caller))

\* an error returned before any CPI
Rejected(f) == Outcome(f.res, f.step, Ledger, <<>>)

\* the accounts that hold an initialized mint / token account
MintExists(key) == config.exists /\ key = MintLpKey
TokenAccountExists(key) == key \in {VaultXKey, VaultYKey}

\* what a caller may pass as the liquidity mint: the mint, the address the
\* mint seeds give with the config bump, an unrelated address
MintKeys == {MintLpKey, Addr("mint_lp", canon["config"]), Stray}

\* Clock::get()?.unix_timestamp
now == Now
\* the deadlines tried: passed, reached just now, still ahead
Expirations == {Now - 1, Now, Now + 1}
\* the nonzero amounts of a payload
Amounts == 1..MaxAmt
\* the nonzero limits (max, min) of a payload: one and the largest amount
Limits == {1, MaxAmt}
\* the payloads with a zero field, <<amount, limit, limit>>
ZeroFields == {<<0, 1, 1>>, <<1, 0, 1>>, <<1, 1, 0>>}

\* the vault derivations shared by the three check functions
vault_derivations(call) ==
  LET vx == create_program_address("vault_x", config.vault_x_bump)
      vy == create_program_address("vault_y", config.vault_y_bump)
  IN IF ~vx.ok \/ vx.key # call.vault_x THEN Fail("InvalidAccountData", "vault_x")
     ELSE IF ~vy.ok \/ vy.key # call.vault_y THEN Fail("InvalidAccountData", "vault_y")
     ELSE Pass

\* the liquidity-mint derivation with a given bump
mint_derivation(call, bump) ==
  LET ml == create_program_address("mint_lp", bump)
  IN IF ~ml.ok \/ ml.key # call.mint_lp THEN Fail("InvalidAccountData", "mint_lp")
     ELSE Pass

(***************************************************************************)
(* Deposit (instruction/deposit.rs)                                        *)
(***************************************************************************)
DepositAccountsLen == 9
DepositDataLen == 32

\* Deposit::try_from, were the payload parsed before the accounts
Deposit_try_from_payload_first(call) ==
  IF call.data_len # DepositDataLen THEN Fail("InvalidInstructionData", "length")
  ELSE IF call.amount = 0 \/ call.max_x = 0 \/ call.max_y = 0
    THEN Fail("InvalidInstructionData", "zero")
  ELSE IF now >= call.expiration THEN Fail("InvalidArgument", "deadline")
  ELSE IF call.n_accounts # DepositAccountsLen THEN Fail("NotEnoughAccountKeys", "count")
  ELSE Pass

\* Deposit::try_from: the account count, then DepositInstructionData::try_from
\* (length, zero fields, expiration)
Deposit_try_from(call) ==
  IF call.n_accounts # DepositAccountsLen THEN Fail("NotEnoughAccountKeys", "count")
  ELSE IF call.data_len # DepositDataLen THEN Fail("InvalidInstructionData", "length")
  ELSE IF call.amount = 0 \/ call.max_x = 0 \/ call.max_y = 0
    THEN Fail("InvalidInstructionData", "zero")
  ELSE IF now >= call.expiration THEN Fail("InvalidArgument", "deadline")
  ELSE Pass

CheckErr(f) == [res |-> f.res, step |-> f.step, x |-> 0, y |-> 0]

\* the bump Deposit::check derives the liquidity mint with: mint_lp_bump
Deposit_mint_bump(c) == c.mint_lp_bump

\* Deposit::check, were only x held against its maximum
Deposit_check_x_only(call) ==
  IF load(call.cfg) # Pass THEN CheckErr(load(call.cfg))
  ELSE IF ~can_deposit(config) THEN CheckErr(Fail("InvalidAccountData", "state"))
  ELSE IF vault_derivations(call) # Pass THEN CheckErr(vault_derivations(call))
  ELSE IF mint_derivation(call, Deposit_mint_bump(config)) # Pass
    THEN CheckErr(mint_derivation(call, Deposit_mint_bump(config)))
  ELSE IF ~MintExists(call.mint_lp) \/ ~TokenAccountExists(call.vault_x)
          \/ ~TokenAccountExists(call.vault_y)
    THEN CheckErr(Fail("InvalidAccountData", "accounts"))
  ELSE LET first == lp_supply = 0 /\ reserve_x = 0 /\ reserve_y = 0
           amounts == IF first
                        THEN [ok |-> TRUE, x |-> call.max_x, y |-> call.max_y]
                        ELSE xy_deposit_amounts_from_l(reserve_x, reserve_y, lp_supply,
                                                       call.amount, Decimals)
       IN IF ~amounts.ok THEN CheckErr(Fail("InvalidArgument", "curve"))
          ELSE IF ~(amounts.x <= call.max_x)
            THEN CheckErr(Fail("InvalidArgument", "slippage"))
          ELSE [res |-> "Ok", step |-> "ok", x |-> amounts.x, y |-> amounts.y]

\* Deposit::check
Deposit_check(call) ==
  IF load(call.cfg) # Pass THEN CheckErr(load(call.cfg))
  ELSE IF ~can_deposit(config) THEN CheckErr(Fail("InvalidAccountData", "state"))
  ELSE IF vault_derivations(call) # Pass THEN CheckErr(vault_derivations(call))
  ELSE IF mint_derivation(call, Deposit_mint_bump(config)) # Pass
    THEN CheckErr(mint_derivation(call, Deposit_mint_bump(config)))
  ELSE IF ~MintExists(call.mint_lp) \/ ~TokenAccountExists(call.vault_x)
          \/ ~TokenAccountExists(call.vault_y)
    THEN CheckErr(Fail("InvalidAccountData", "accounts"))
  ELSE LET first == lp_supply = 0 /\ reserve_x = 0 /\ reserve_y = 0
           amounts == IF first
                        THEN [ok |-> TRUE, x |-> call.max_x, y |-> call.max_y]
                        ELSE xy_deposit_amounts_from_l(reserve_x, reserve_y, lp_supply,
                                                       call.amount, Decimals)
       IN IF ~amounts.ok THEN CheckErr(Fail("InvalidArgument", "curve"))
          ELSE IF ~(amounts.x <= call.max_x /\ amounts.y <= call.max_y)
            THEN CheckErr(Fail("InvalidArgument", "slippage"))
          ELSE [res |-> "Ok", step |-> "ok", x |-> amounts.x, y |-> amounts.y]

\* Deposit::transfer_to_vault_and_mint_to_user, were the amount of X minted
\* in place of the requested LP amount
Deposit_cpis_mints_x(call, x, y) ==
  << Cpi("Transfer", Acct(call.own, "x"), Acct("vault", "x"), call.caller, NoSeeds, x),
     Cpi("Transfer", Acct(call.own, "y"), Acct("vault", "y"), call.caller, NoSeeds, y),
     Cpi("MintTo", Acct(call.own, "lp"), Acct(call.own, "lp"), "config",
         config.config_bump, x) >>

\* Deposit::transfer_to_vault_and_mint_to_user: the three CPIs, in order
Deposit_cpis(call, x, y) ==
  << Cpi("Transfer", Acct(call.own, "x"), Acct("vault", "x"), call.caller, NoSeeds, x),
     Cpi("Transfer", Acct(call.own, "y"), Acct("vault", "y"), call.caller, NoSeeds, y),
     Cpi("MintTo", Acct(call.own, "lp"), Acct(call.own, "lp"), "config",
         config.config_bump, call.amount) >>

\* Deposit::process, were the X transfer issued before check has finished
Deposit_process_transfer_first(call) ==
  IF Deposit_try_from(call) # Pass THEN Rejected(Deposit_try_from(call))
  ELSE LET c == Deposit_check(call) IN
       IF c.res # "Ok"
         THEN Outcome(c.res, c.step, Ledger,
                      Issued(Deposit_cpis(call, call.max_x, call.max_y), 1, call.caller))
       ELSE Execute(Deposit_cpis(call, c.x, c.y), call.caller)

\* Deposit::try_from followed by Deposit::process
Deposit_process(call) ==
  IF Deposit_try_from(call) # Pass THEN Rejected(Deposit_try_from(call))
  ELSE LET c == Deposit_check(call) IN
       IF c.res # "Ok" THEN Rejected(c)
       ELSE Execute(Deposit_cpis(call, c.x, c.y), call.caller)

\* a well-formed call but for its numbers
GoodShape(n_accounts, data_len) ==
  [n_accounts |-> n_accounts, data_len |-> data_len, cfg |-> "pool",
   vault_x |-> VaultXKey, vault_y |-> VaultYKey, mint_lp |-> MintLpKey, foreign |-> FALSE]

\* the shapes of a call: the well-formed one, and each way of getting one
\* account or length wrong; foreign: the user token accounts passed belong
\* to another user than the caller
Shapes(n_accounts, data_len) ==
  LET g == GoodShape(n_accounts, data_len) IN
  {g, [g EXCEPT !.n_accounts = n_accounts - 1], [g EXCEPT !.data_len = data_len + 1],
   [g EXCEPT !.n_accounts = n_accounts + 1, !.data_len = data_len + 1],
   [g EXCEPT !.cfg = "badlen"], [g EXCEPT !.cfg = "badowner"],
   [g EXCEPT !.vault_x = Stray], [g EXCEPT !.vault_y = Stray], [g EXCEPT !.foreign = TRUE]}
  \cup {[g EXCEPT !.mint_lp = m] : m \in MintKeys}

Other(u) == CHOOSE v \in Users : v # u

\* a deadline that is still ahead
Later == Now + 1

\* the numbers of a payload, <<amount, limit, limit, expiration>>: for the
\* funded user and the well-formed shape every combination of nonzero
\* numbers and every zero field before the deadline, every deadline with
\* one combination, and a zero amount at the deadline; for a short account
\* list a passing combination, a zero amount and a deadline reached;
\* otherwise one passing combination
Numbers(u, sh, good) ==
  IF u = Funded /\ sh = good
    THEN (Amounts \X Limits \X Limits \X {Later})
         \cup {<<z[1], z[2], z[3], Later>> : z \in ZeroFields}
         \cup ({1} \X {1} \X {1} \X Expirations)
         \cup {<<0, 1, 1, Now>>}
    ELSE IF u = Funded /\ sh.n_accounts < good.n_accounts
      THEN {<<1, 1, 1, Later>>, <<0, 1, 1, Later>>, <<1, 1, 1, Now>>}
    ELSE {<<1, 1, 1, Later>>}

\* the calls of an instruction: the funded user with every shape, the user
\* without funds with the well-formed one
CallsBy(u, shapes, good) ==
  UNION { { [caller |-> u, own |-> IF sh.foreign THEN Other(u) ELSE u, shape |-> sh,
             n |-> n] : n \in Numbers(u, sh, good) } : sh \in shapes }

Calls(n_accounts, data_len) ==
  LET good == GoodShape(n_accounts, data_len) IN
  CallsBy(Funded, Shapes(n_accounts, data_len), good)
  \cup CallsBy(Other(Funded), {good}, good)

DepositCall(k) ==
  [caller |-> k.caller, own |-> k.own, n_accounts |-> k.shape.n_accounts,
   data_len |-> k.shape.data_len, cfg |-> k.shape.cfg, vault_x |-> k.shape.vault_x,
   vault_y |-> k.shape.vault_y, mint_lp |-> k.shape.mint_lp,
   amount |-> k.n[1], max_x |-> k.n[2], max_y |-> k.n[3], expiration |-> k.n[4]]

\* the record of an instruction: the operation, its error and step, the CPIs
\* it issued, the state byte it found, an argument of the call, the numbers
\* of its payload and what it moved into the vaults (out of them: negative)
Done(op, lead, call, o, arg, n) ==
  [op |-> op, res |-> o.res, step |-> o.step, cpis |-> o.cpis,
   pre |-> config.state, arg |-> arg, n |-> n,
   moved |-> <<o.S.tok["vault"].x - reserve_x, o.S.tok["vault"].y - reserve_y>>,
   lead |-> lead,
   call |-> [n_accounts |-> call.n_accounts, data_len |-> call.data_len,
             cfg |-> call.cfg, caller |-> call.caller]]

\* the Deposit instruction, were it to load the config mutably and disable
\* the pool once the tokens are in
Deposit_disabling ==
  \E lead \in LeadsTo("Deposit"), k \in Calls(DepositAccountsLen, DepositDataLen) :
    LET call == DepositCall(k)
        o == Deposit_process(call)
    IN /\ lp_supply + call.amount <= MaxLp
       /\ tok' = o.S.tok
       /\ lp_supply' = o.S.lp
       /\ last' = Done("Deposit", lead, call, o, 0, k.n)
       /\ config' = IF o.res = "Ok" THEN [config EXCEPT !.state = Disabled] ELSE config
       /\ UNCHANGED <<canon, loan, escrow, lamports>>

Deposit ==
  \E lead \in LeadsTo("Deposit"), k \in Calls(DepositAccountsLen, DepositDataLen) :
    LET call == DepositCall(k)
        o == Deposit_process(call)
    IN /\ lp_supply + call.amount <= MaxLp
       /\ tok' = o.S.tok
       /\ lp_supply' = o.S.lp
       /\ last' = Done("Deposit", lead, call, o, 0, k.n)
       /\ UNCHANGED <<config, canon, loan, escrow, lamports>>

(***************************************************************************)
(* Withdraw (instruction/withdraw.rs)                                      *)
(***************************************************************************)
WithdrawAccountsLen == 9
WithdrawDataLen == 32

\* Withdraw::try_from, were a call accepted at its expiration
Withdraw_try_from_until_expiration(call) ==
  IF call.n_accounts # WithdrawAccountsLen THEN Fail("NotEnoughAccountKeys", "count")
  ELSE IF call.data_len # WithdrawDataLen THEN Fail("InvalidInstructionData", "length")
  ELSE IF call.amount = 0 \/ call.min_x = 0 \/ call.min_y = 0
    THEN Fail("InvalidInstructionData", "zero")
  ELSE IF call.expiration < now THEN Fail("InvalidArgument", "deadline")
  ELSE Pass

\* Withdraw::try_from: the account count, then WithdrawInstructionData::try_from
Withdraw_try_from(call) ==
  IF call.n_accounts # WithdrawAccountsLen THEN Fail("NotEnoughAccountKeys", "count")
  ELSE IF call.data_len # WithdrawDataLen THEN Fail("InvalidInstructionData", "length")
  ELSE IF call.amount = 0 \/ call.min_x = 0 \/ call.min_y = 0
    THEN Fail("InvalidInstructionData", "zero")
  ELSE IF call.expiration <= now THEN Fail("InvalidArgument", "deadline")
  ELSE Pass

\* the bump Withdraw::check derives the liquidity mint with: config_bump
Withdraw_mint_bump(c) == c.config_bump

\* Withdraw::check, were only x held against its minimum
Withdraw_check_x_only(call) ==
  IF load(call.cfg) # Pass THEN CheckErr(load(call.cfg))
  ELSE IF ~can_withdraw(config) THEN CheckErr(Fail("InvalidAccountData", "state"))
  ELSE IF vault_derivations(call) # Pass THEN CheckErr(vault_derivations(call))
  ELSE IF mint_derivation(call, Withdraw_mint_bump(config)) # Pass
    THEN CheckErr(mint_derivation(call, Withdraw_mint_bump(config)))
  ELSE IF ~MintExists(call.mint_lp) \/ ~TokenAccountExists(call.vault_x)
          \/ ~TokenAccountExists(call.vault_y)
    THEN CheckErr(Fail("InvalidAccountData", "accounts"))
  ELSE LET amounts == IF lp_supply = call.amount
                        THEN [ok |-> TRUE, x |-> reserve_x, y |-> reserve_y]
                        ELSE xy_withdraw_amounts_from_l(reserve_x, reserve_y, lp_supply,
                                                        call.amount, Decimals)
       IN IF ~amounts.ok THEN CheckErr(Fail("InvalidArgument", "curve"))
          ELSE IF amounts.x < call.min_x
            THEN CheckErr(Fail("InvalidArgument", "slippage"))
          ELSE [res |-> "Ok", step |-> "ok", x |-> amounts.x, y |-> amounts.y]

\* Withdraw::check
Withdraw_check(call) ==
  IF load(call.cfg) # Pass THEN CheckErr(load(call.cfg))
  ELSE IF ~can_withdraw(config) THEN CheckErr(Fail("InvalidAccountData", "state"))
  ELSE IF vault_derivations(call) # Pass THEN CheckErr(vault_derivations(call))
  ELSE IF mint_derivation(call, Withdraw_mint_bump(config)) # Pass
    THEN CheckErr(mint_derivation(call, Withdraw_mint_bump(config)))
  ELSE IF ~MintExists(call.mint_lp) \/ ~TokenAccountExists(call.vault_x)
          \/ ~TokenAccountExists(call.vault_y)
    THEN CheckErr(Fail("InvalidAccountData", "accounts"))
  ELSE LET amounts == IF lp_supply = call.amount
                        THEN [ok |-> TRUE, x |-> reserve_x, y |-> reserve_y]
                        ELSE xy_withdraw_amounts_from_l(reserve_x, reserve_y, lp_supply,
                                                        call.amount, Decimals)
       IN IF ~amounts.ok THEN CheckErr(Fail("InvalidArgument", "curve"))
          ELSE IF amounts.x < call.min_x \/ amounts.y < call.min_y
            THEN CheckErr(Fail("InvalidArgument", "slippage"))
          ELSE [res |-> "Ok", step |-> "ok", x |-> amounts.x, y |-> amounts.y]

\* Withdraw::transfer_tokens_and_burn_lp_tokens, were the amount of X paid
\* out of both vaults
Withdraw_cpis_pays_x_twice(call, x, y) ==
  << Cpi("Transfer", Acct("vault", "x"), Acct(call.own, "x"), "config",
         config.config_bump, x),
     Cpi("Transfer", Acct("vault", "y"), Acct(call.own, "y"), "config",
         config.config_bump, x),
     Cpi("Burn", Acct(call.own, "lp"), Acct(call.own, "lp"), call.caller, NoSeeds,
         call.amount) >>

\* Withdraw::transfer_tokens_and_burn_lp_tokens, were no LP token burnt
Withdraw_cpis_burns_nothing(call, x, y) ==
  << Cpi("Transfer", Acct("vault", "x"), Acct(call.own, "x"), "config",
         config.config_bump, x),
     Cpi("Transfer", Acct("vault", "y"), Acct(call.own, "y"), "config",
         config.config_bump, y),
     Cpi("Burn", Acct(call.own, "lp"), Acct(call.own, "lp"), call.caller, NoSeeds,
         0) >>

\* Withdraw::transfer_tokens_and_burn_lp_tokens, were the amount of X burnt
\* in place of the LP amount
Withdraw_cpis_burns_x(call, x, y) ==
  << Cpi("Transfer", Acct("vault", "x"), Acct(call.own, "x"), "config",
         config.config_bump, x),
     Cpi("Transfer", Acct("vault", "y"), Acct(call.own, "y"), "config",
         config.config_bump, y),
     Cpi("Burn", Acct(call.own, "lp"), Acct(call.own, "lp"), call.caller, NoSeeds,
         x) >>

\* Withdraw::transfer_tokens_and_burn_lp_tokens: the three CPIs, in order
Withdraw_cpis(call, x, y) ==
  << Cpi("Transfer", Acct("vault", "x"), Acct(call.own, "x"), "config",
         config.config_bump, x),
     Cpi("Transfer", Acct("vault", "y"), Acct(call.own, "y"), "config",
         config.config_bump, y),
     Cpi("Burn", Acct(call.own, "lp"), Acct(call.own, "lp"), call.caller, NoSeeds,
         call.amount) >>

\* Withdraw::try_from followed by Withdraw::process
Withdraw_process(call) ==
  IF Withdraw_try_from(call) # Pass THEN Rejected(Withdraw_try_from(call))
  ELSE LET c == Withdraw_check(call) IN
       IF c.res # "Ok" THEN Rejected(c)
       ELSE Execute(Withdraw_cpis(call, c.x, c.y), call.caller)

WithdrawCall(k) ==
  [caller |-> k.caller, own |-> k.own, n_accounts |-> k.shape.n_accounts,
   data_len |-> k.shape.data_len, cfg |-> k.shape.cfg, vault_x |-> k.shape.vault_x,
   vault_y |-> k.shape.vault_y, mint_lp |-> k.shape.mint_lp,
   amount |-> k.n[1], min_x |-> k.n[2], min_y |-> k.n[3], expiration |-> k.n[4]]

Withdraw ==
  \E lead \in LeadsTo("Withdraw"), k \in Calls(WithdrawAccountsLen, WithdrawDataLen) :
    LET call == WithdrawCall(k)
        o == Withdraw_process(call)
    IN /\ tok' = o.S.tok
       /\ lp_supply' = o.S.lp
       /\ last' = Done("Withdraw", lead, call, o, 0, k.n)
       /\ UNCHANGED <<config, canon, loan, escrow, lamports>>

(***************************************************************************)
(* Swap (instruction/swap.rs)                                              *)
(***************************************************************************)
SwapAccountsLen == 7
SwapDataLen == 25

\* Swap::try_from, were min left unchecked against zero
Swap_try_from_min_unchecked(call) ==
  IF call.n_accounts # SwapAccountsLen THEN Fail("NotEnoughAccountKeys", "count")
  ELSE IF call.data_len # SwapDataLen THEN Fail("InvalidInstructionData", "length")
  ELSE IF call.is_x \notin {0, 1} THEN Fail("InvalidInstructionData", "is_x")
  ELSE IF call.amount = 0 THEN Fail("InvalidInstructionData", "zero")
  ELSE IF call.expiration <= now THEN Fail("InvalidArgument", "deadline")
  ELSE Pass

\* Swap::try_from, were only min checked against zero
Swap_try_from_zero_amount(call) ==
  IF call.n_accounts # SwapAccountsLen THEN Fail("NotEnoughAccountKeys", "count")
  ELSE IF call.data_len # SwapDataLen THEN Fail("InvalidInstructionData", "length")
  ELSE IF call.is_x \notin {0, 1} THEN Fail("InvalidInstructionData", "is_x")
  ELSE IF call.min = 0 THEN Fail("InvalidInstructionData", "zero")
  ELSE IF call.expiration <= now THEN Fail("InvalidArgument", "deadline")
  ELSE Pass

\* Swap::try_from: the account count, then SwapInstructionData::try_from
\* (length, the is_x byte, zero fields, expiration)
Swap_try_from(call) ==
  IF call.n_accounts # SwapAccountsLen THEN Fail("NotEnoughAccountKeys", "count")
  ELSE IF call.data_len # SwapDataLen THEN Fail("InvalidInstructionData", "length")
  ELSE IF call.is_x \notin {0, 1} THEN Fail("InvalidInstructionData", "is_x")
  ELSE IF call.amount = 0 \/ call.min = 0 THEN Fail("InvalidInstructionData", "zero")
  ELSE IF call.expiration <= now THEN Fail("InvalidArgument", "deadline")
  ELSE Pass

SwapCheckErr(f) == [res |-> f.res, step |-> f.step, deposit |-> 0, withdraw |-> 0]

\* Swap::check, were the minimum not handed to the curve
Swap_check_min_ignored(call) ==
  IF load(call.cfg) # Pass THEN SwapCheckErr(load(call.cfg))
  ELSE IF ~can_swap(config) THEN SwapCheckErr(Fail("InvalidAccountData", "state"))
  ELSE IF vault_derivations(call) # Pass THEN SwapCheckErr(vault_derivations(call))
  ELSE IF ~TokenAccountExists(call.vault_x) \/ ~TokenAccountExists(call.vault_y)
    THEN SwapCheckErr(Fail("InvalidAccountData", "accounts"))
  ELSE LET curve == init(reserve_x, reserve_y, reserve_x, config.fee)
           res == swap(curve, call.is_x = 1, call.amount, 1)
       IN IF ~curve.ok THEN SwapCheckErr(Fail("InvalidArgument", "curve"))
          ELSE IF ~res.ok THEN SwapCheckErr(Fail("InvalidArgument", "curve"))
          ELSE IF res.deposit = 0 \/ res.withdraw = 0
            THEN SwapCheckErr(Fail("InvalidArgument", "zero_out"))
          ELSE [res |-> "Ok", step |-> "ok", deposit |-> res.deposit,
                withdraw |-> res.withdraw]

\* Swap::check
Swap_check(call) ==
  IF load(call.cfg) # Pass THEN SwapCheckErr(load(call.cfg))
  ELSE IF ~can_swap(config) THEN SwapCheckErr(Fail("InvalidAccountData", "state"))
  ELSE IF vault_derivations(call) # Pass THEN SwapCheckErr(vault_derivations(call))
  ELSE IF ~TokenAccountExists(call.vault_x) \/ ~TokenAccountExists(call.vault_y)
    THEN SwapCheckErr(Fail("InvalidAccountData", "accounts"))
  ELSE LET curve == init(reserve_x, reserve_y, reserve_x, config.fee)
           res == swap(curve, call.is_x = 1, call.amount, call.min)
       IN IF ~curve.ok THEN SwapCheckErr(Fail("InvalidArgument", "curve"))
          ELSE IF ~res.ok THEN SwapCheckErr(Fail("InvalidArgument", "curve"))
          ELSE IF res.deposit = 0 \/ res.withdraw = 0
            THEN SwapCheckErr(Fail("InvalidArgument", "zero_out"))
          ELSE [res |-> "Ok", step |-> "ok", deposit |-> res.deposit,
                withdraw |-> res.withdraw]

\* Swap::transfer, were the input leg paid into the user's own account
Swap_cpis_input_to_self(call, deposit, withdraw) ==
  LET in == IF call.is_x = 1 THEN "x" ELSE "y"
      out == IF call.is_x = 1 THEN "y" ELSE "x"
  IN << Cpi("Transfer", Acct(call.own, in), Acct(call.own, in), call.caller, NoSeeds,
            deposit),
        Cpi("Transfer", Acct("vault", out), Acct(call.own, out), "config",
            config.config_bump, withdraw) >>

\* Swap::transfer, were the output leg authorized by the caller
Swap_cpis_caller_pays_out(call, deposit, withdraw) ==
  LET in == IF call.is_x = 1 THEN "x" ELSE "y"
      out == IF call.is_x = 1 THEN "y" ELSE "x"
  IN << Cpi("Transfer", Acct(call.own, in), Acct("vault", in), call.caller, NoSeeds,
            deposit),
        Cpi("Transfer", Acct("vault", out), Acct(call.own, out), call.caller,
            NoSeeds, withdraw) >>

\* Swap::transfer, were the output leg issued before the input leg
Swap_cpis_output_first(call, deposit, withdraw) ==
  LET in == IF call.is_x = 1 THEN "x" ELSE "y"
      out == IF call.is_x = 1 THEN "y" ELSE "x"
  IN << Cpi("Transfer", Acct("vault", out), Acct(call.own, out), "config",
            config.config_bump, withdraw),
        Cpi("Transfer", Acct(call.own, in), Acct("vault", in), call.caller, NoSeeds,
            deposit) >>

\* Swap::transfer: the input leg signed by the user, then the output leg
\* signed with the config seeds
Swap_cpis(call, deposit, withdraw) ==
  LET in == IF call.is_x = 1 THEN "x" ELSE "y"
      out == IF call.is_x = 1 THEN "y" ELSE "x"
  IN << Cpi("Transfer", Acct(call.own, in), Acct("vault", in), call.caller, NoSeeds,
            deposit),
        Cpi("Transfer", Acct("vault", out), Acct(call.own, out), "config",
            config.config_bump, withdraw) >>

\* Swap::try_from followed by Swap::process
Swap_process(call) ==
  IF Swap_try_from(call) # Pass THEN Rejected(Swap_try_from(call))
  ELSE LET c == Swap_check(call) IN
       IF c.res # "Ok" THEN Rejected(c)
       ELSE Execute(Swap_cpis(call, c.deposit, c.withdraw), call.caller)

\* the is_x bytes tried: both directions and one byte that is neither
IsXBytes == {0, 1, 2}

SwapCall(k, b) ==
  [caller |-> k.caller, own |-> k.own, n_accounts |-> k.shape.n_accounts,
   data_len |-> k.shape.data_len, cfg |-> k.shape.cfg, vault_x |-> k.shape.vault_x,
   vault_y |-> k.shape.vault_y, is_x |-> b,
   amount |-> k.n[1], min |-> k.n[2], expiration |-> k.n[4]]

\* Swap has two numbers and no mint account: the calls that differ in the
\* third number or in the mint are one call
Swap ==
  \E lead \in LeadsTo("Swap"), k \in Calls(SwapAccountsLen, SwapDataLen), b \in IsXBytes :
    LET call == SwapCall(k, b)
        o == Swap_process(call)
    IN /\ k.n[3] = 1
       /\ k.shape.mint_lp = MintLpKey
       /\ b \in {0, 1} \/ (k.n[1] = 1 /\ k.n[2] = 1)
       /\ tok' = o.S.tok
       /\ lp_supply' = o.S.lp
       /\ last' = Done("Swap", lead, call, o, b, k.n)
       /\ UNCHANGED <<config, canon, loan, escrow, lamports>>

(***************************************************************************)
(* Initialize (instruction/initialize.rs)                                  *)
(***************************************************************************)
InitializeAccountsLen == 5
InitializeDataLenWithAuthority == 106
InitializeDataLen == 74

\* Initialize::try_from: the account count, then the payload length
Initialize_try_from(call) ==
  IF call.n_accounts # InitializeAccountsLen THEN Fail("NotEnoughAccountKeys", "count")
  ELSE IF call.data_len \notin {InitializeDataLenWithAuthority, InitializeDataLen}
    THEN Fail("InvalidInstructionData", "length")
  ELSE Pass

\* the CPIs of Initialize::process: the mint's account, the mint, the
\* config's account
Initialize_cpis ==
  << [kind |-> "CreateAccount", src |-> "user", auth |-> "caller", seeded |-> TRUE],
     [kind |-> "InitializeMint2", src |-> "mint", auth |-> "caller", seeded |-> FALSE],
     [kind |-> "CreateAccount", src |-> "user", auth |-> "caller", seeded |-> TRUE] >>

InitializeOutcome(f, c, cpis) == [res |-> f.res, step |-> f.step, c |-> c, cpis |-> cpis]

\* the address and bump find_program_address yields for the config seeds
\* ("config", seed, mint_x, mint_y): the pool's for the pool's seeds
config_address(seed, mint_x, mint_y) ==
  IF seed = PoolSeed /\ mint_x = MintX /\ mint_y = MintY
    THEN find_program_address("config")
    ELSE [key |-> Stray, bump |-> canon["config"]]

\* the liquidity mint of a config address that is not the pool's
StrayMint == [kind |-> "stray_mint", bump |-> 0]

\* the address and bump find_program_address yields for the mint seeds
\* ("mint_lp", key of the config account passed)
mint_lp_address(config_key) ==
  IF config_key = ConfigKey THEN find_program_address("mint_lp")
  ELSE [key |-> StrayMint, bump |-> canon["mint_lp"]]

\* InitializeInstructionData::try_from, were the authority of a short
\* payload read from what follows it
InitializeInstructionData_try_from_unfilled(call) ==
  [seed |-> call.seed, fee |-> call.fee, mint_x |-> call.mint_x, mint_y |-> call.mint_y,
   authority |-> call.trailing]

\* InitializeInstructionData::try_from for an accepted length: the payload
\* read as the struct, the authority zero-filled when the payload ends
\* before it
InitializeInstructionData_try_from(call) ==
  [seed |-> call.seed, fee |-> call.fee, mint_x |-> call.mint_x, mint_y |-> call.mint_y,
   authority |-> IF call.data_len = InitializeDataLenWithAuthority
                   THEN call.trailing ELSE ZeroBytes]

\* Initialize::process, were the config address not compared
Initialize_process_config_unchecked(call) ==
  LET d == InitializeInstructionData_try_from(call)
      ml == mint_lp_address(call.config)
      cf == config_address(d.seed, d.mint_x, d.mint_y)
      vx == find_program_address("vault_x")
      vy == find_program_address("vault_y")
      fresh == [NoConfig EXCEPT !.exists = TRUE]
      w == set_inner(fresh, Initialized, d.seed, d.authority, d.mint_x, d.mint_y, d.fee,
                     cf.bump, vx.bump, vy.bump, ml.bump)
  IN IF Initialize_try_from(call) # Pass
       THEN InitializeOutcome(Initialize_try_from(call), config, <<>>)
     ELSE IF ml.key # call.mint_lp
       THEN InitializeOutcome(Fail("InvalidInstructionData", "mint_lp"), config, <<>>)
     ELSE IF config.exists
       THEN InitializeOutcome(Fail("AccountAlreadyInUse", "cpi"), config,
                              SubSeq(Initialize_cpis, 1, 1))
     ELSE IF ~w.ok
       THEN InitializeOutcome(Fail(w.err, "set_inner"), config, Initialize_cpis)
     ELSE InitializeOutcome(Pass, w.c, Initialize_cpis)

\* Initialize::process, were an existing config written again
Initialize_process_rewrites(call) ==
  LET d == InitializeInstructionData_try_from(call)
      ml == mint_lp_address(call.config)
      cf == config_address(d.seed, d.mint_x, d.mint_y)
      vx == find_program_address("vault_x")
      vy == find_program_address("vault_y")
      fresh == [NoConfig EXCEPT !.exists = TRUE]
      w == set_inner(fresh, Initialized, d.seed, d.authority, d.mint_x, d.mint_y, d.fee,
                     cf.bump, vx.bump, vy.bump, ml.bump)
  IN IF Initialize_try_from(call) # Pass
       THEN InitializeOutcome(Initialize_try_from(call), config, <<>>)
     ELSE IF ml.key # call.mint_lp
       THEN InitializeOutcome(Fail("InvalidInstructionData", "mint_lp"), config, <<>>)
     ELSE IF cf.key # call.config
       THEN InitializeOutcome(Fail("InvalidInstructionData", "config"), config, <<>>)
     ELSE IF ~w.ok
       THEN InitializeOutcome(Fail(w.err, "set_inner"), config, Initialize_cpis)
     ELSE InitializeOutcome(Pass, w.c, Initialize_cpis)

\* Initialize::process: the result, the config it leaves and the CPIs
\* issued.  The mint address is derived from the key of the config account
\* passed, the config address from the payload; creating the mint's account
\* fails when the pool was created before; an error after a CPI discards
\* the accounts created, so the config is as before
Initialize_process(call) ==
  LET d == InitializeInstructionData_try_from(call)
      ml == mint_lp_address(call.config)
      cf == config_address(d.seed, d.mint_x, d.mint_y)
      vx == find_program_address("vault_x")
      vy == find_program_address("vault_y")
      fresh == [NoConfig EXCEPT !.exists = TRUE]
      w == set_inner(fresh, Initialized, d.seed, d.authority, d.mint_x, d.mint_y, d.fee,
                     cf.bump, vx.bump, vy.bump, ml.bump)
  IN IF Initialize_try_from(call) # Pass
       THEN InitializeOutcome(Initialize_try_from(call), config, <<>>)
     ELSE IF ml.key # call.mint_lp
       THEN InitializeOutcome(Fail("InvalidInstructionData", "mint_lp"), config, <<>>)
     ELSE IF cf.key # call.config
       THEN InitializeOutcome(Fail("InvalidInstructionData", "config"), config, <<>>)
     ELSE IF config.exists
       THEN InitializeOutcome(Fail("AccountAlreadyInUse", "cpi"), config,
                              SubSeq(Initialize_cpis, 1, 1))
     ELSE IF ~w.ok
       THEN InitializeOutcome(Fail(w.err, "set_inner"), config, Initialize_cpis)
     ELSE InitializeOutcome(Pass, w.c, Initialize_cpis)

\* the calls of Initialize but for the fee: the well-formed ones without an
\* authority and with the authority of no admin, and each way of getting
\* the account list, the payload or an address wrong; trailing is the
\* thirty-two bytes after the 74th, the authority of a long payload and
\* none of a short one's
GoodInitialize ==
  [n_accounts |-> InitializeAccountsLen, data_len |-> InitializeDataLen,
   mint_lp |-> MintLpKey, config |-> ConfigKey,
   seed |-> PoolSeed, mint_x |-> MintX, mint_y |-> MintY, trailing |-> Admin]

InitializeShapes ==
  LET g == GoodInitialize
  IN {g, [g EXCEPT !.data_len = InitializeDataLenWithAuthority, !.trailing = ZeroBytes],
      [g EXCEPT !.n_accounts = InitializeAccountsLen - 1],
      [g EXCEPT !.n_accounts = InitializeAccountsLen + 1, !.data_len = InitializeDataLen + 1],
      [g EXCEPT !.data_len = InitializeDataLen + 1],
      [g EXCEPT !.data_len = 0],
      [g EXCEPT !.mint_lp = Stray], [g EXCEPT !.config = Stray],
      [g EXCEPT !.mint_lp = StrayMint, !.config = Stray],
      [g EXCEPT !.seed = "other"], [g EXCEPT !.mint_x = MintY, !.mint_y = MintX]}

InitializeCall(sh, fee) ==
  [n_accounts |-> sh.n_accounts, data_len |-> sh.data_len, mint_lp |-> sh.mint_lp,
   config |-> sh.config, seed |-> sh.seed, mint_x |-> sh.mint_x, mint_y |-> sh.mint_y,
   trailing |-> sh.trailing, fee |-> fee]

\* the same and the well-formed call that names an admin
AdminShapes ==
  InitializeShapes
  \cup {[GoodInitialize EXCEPT !.data_len = InitializeDataLenWithAuthority]}

\* the Initialize instruction; every fee with an address-correct account
\* list, one fee otherwise
InitializeStep(lead, sh, fee) ==
    LET call == InitializeCall(sh, fee)
        o == Initialize_process(call)
    IN /\ \/ sh.n_accounts = InitializeAccountsLen /\ sh.mint_lp = MintLpKey
             /\ sh.config = ConfigKey
          \/ fee = 0
       /\ config' = o.c
       /\ last' = [op |-> "Initialize", res |-> o.res, step |-> o.step,
                   cpis |-> o.cpis, pre |-> config.state, arg |-> fee, n |-> <<>>,
                   moved |-> <<0, 0>>, lead |-> lead, call |-> call]
       /\ UNCHANGED <<tok, lp_supply, canon, loan, escrow, lamports>>

Initialize ==
  \E lead \in LeadsTo("Initialize"), sh \in InitializeShapes, fee \in Fees :
    InitializeStep(lead, sh, fee)

InitializeAdmin ==
  \E lead \in LeadsTo("Initialize"), sh \in AdminShapes, fee \in Fees :
    InitializeStep(lead, sh, fee)

(***************************************************************************)
(* An instruction that is none of the four (lib.rs).                       *)
(***************************************************************************)
Undispatched ==
  \E lead \in LeadsTo("Unknown") :
    /\ last' = [op |-> "Unknown", res |-> "InvalidInstructionData", step |-> "dispatch",
                cpis |-> <<>>, pre |-> config.state, arg |-> 0, n |-> <<>>,
                moved |-> <<0, 0>>, lead |-> lead, call |-> <<>>]
    /\ UNCHANGED <<config, tok, lp_supply, canon, loan, escrow, lamports>>

(***************************************************************************)
(* The state mutator, called on the pool's record with any byte.           *)
(***************************************************************************)
SetState ==
  \E state \in 0..MaxStateByte :
    LET r == set_state(config, state) IN
    /\ config.exists
    /\ config' = r.c
    /\ last' = [op |-> "SetState", res |-> r.err, step |-> "set_state", cpis |-> <<>>,
                pre |-> config.state, arg |-> state, n |-> <<>>,
                moved |-> <<0, 0>>, lead |-> Direct, call |-> <<>>]
    /\ UNCHANGED <<tok, lp_supply, canon, loan, escrow, lamports>>

(***************************************************************************)
(* The fee mutator, called on the pool's record with any fee.              *)
(***************************************************************************)
SetFee ==
  \E fee \in Fees :
    LET r == set_fee(config, fee) IN
    /\ config.exists
    /\ config' = r.c
    /\ last' = [op |-> "SetFee", res |-> r.err, step |-> "set_fee", cpis |-> <<>>,
                pre |-> config.state, arg |-> fee, n |-> <<>>,
                moved |-> <<0, 0>>, lead |-> Direct, call |-> <<>>]
    /\ UNCHANGED <<tok, lp_supply, canon, loan, escrow, lamports>>

(***************************************************************************)
(* The specification.                                                      *)
(***************************************************************************)
\* the bumps derivation yields: for the config and the mint equal bumps, a
\* config bump above the mint's and one below it; a fixed pair of different
\* values for the vaults
CanonChoices ==
  {f \in [PdaKinds -> Bumps] : f["vault_x"] = 255 /\ f["vault_y"] = 254
                                /\ (f["config"] = 255 \/ f["mint_lp"] = 255)}

Init ==
  /\ config = NoConfig
  /\ tok = [h \in Holders |->
              IF h = "vault" THEN [x |-> 0, y |-> 0, lp |-> 0]
              ELSE IF h = Funded THEN [x |-> InitBal, y |-> InitBal, lp |-> 0]
              ELSE [x |-> 0, y |-> 0, lp |-> 0]]
  /\ lp_supply = 0
  /\ canon \in CanonChoices
  /\ last = [op |-> "None", res |-> "Ok", step |-> "none", cpis |-> <<>>,
             pre |-> 0, arg |-> 0, n |-> <<>>, moved |-> <<0, 0>>,
             lead |-> Direct, call |-> <<>>]
  /\ loan = NoLoan
  /\ escrow = NoEscrow
  /\ lamports = NoLamports

Next == Initialize \/ Deposit \/ Withdraw \/ Swap \/ Undispatched \/ SetState \/ SetFee

Spec == Init /\ [][Next]_vars

(***************************************************************************)
(* The program before any user holds a token, with pools that name an      *)
(* admin and pools that name none.                                         *)
(***************************************************************************)
AdminInit ==
  /\ config = NoConfig
  /\ tok = [h \in Holders |-> [x |-> 0, y |-> 0, lp |-> 0]]
  /\ lp_supply = 0
  /\ canon \in CanonChoices
  /\ last = [op |-> "None", res |-> "Ok", step |-> "none", cpis |-> <<>>,
             pre |-> 0, arg |-> 0, n |-> <<>>, moved |-> <<0, 0>>,
             lead |-> Direct, call |-> <<>>]
  /\ loan = NoLoan
  /\ escrow = NoEscrow
  /\ lamports = NoLamports

AdminNext ==
  InitializeAdmin \/ Deposit \/ Withdraw \/ Swap \/ Undispatched \/ SetState \/ SetFee

SpecAdmin == AdminInit /\ [][AdminNext]_vars

(***************************************************************************)
(* A pool with liquidity: the program after Initialize, a first deposit    *)
(* that sets the reserves and the supply, a deposit into the running pool  *)
(* and a withdrawal by the last depositor.                                 *)
(***************************************************************************)
\* the largest supply and the middle reserve of a shallow pool
PoolLp == 387
PoolReserve == 12000

\* the first deposits tried, <<amount, max_x, max_y>>
SeedLps == {PoolLp - 45, PoolLp - 1, PoolLp}
SeedReserves == {PoolReserve - 9290, PoolReserve, PoolReserve + 1000}
\* the supply and the reserve of a deep pool
DeepLp == 600000
DeepReserve == 10000000

Seeds == (SeedLps \X SeedReserves \X SeedReserves)
         \cup {<<DeepLp, DeepReserve, DeepReserve>>, <<DeepLp, DeepReserve, PoolReserve>>}

\* what each user holds of x and of y before the first deposit
PoolFunds == 2 * DeepReserve

\* the provider of the first deposit and the user who deposits after it
Seeder == Other(Funded)

\* the state Initialize leaves, in the world where the config and the mint
\* have the same canonical bump, both users funded
PoolInit ==
  /\ canon = [k \in PdaKinds |-> IF k = "vault_y" THEN 254 ELSE 255]
  /\ config = set_inner([NoConfig EXCEPT !.exists = TRUE], Initialized, PoolSeed,
                        ZeroBytes, MintX, MintY, 0,
                        canon["config"], canon["vault_x"], canon["vault_y"],
                        canon["mint_lp"]).c
  /\ tok = [h \in Holders |->
              IF h = "vault" THEN [x |-> 0, y |-> 0, lp |-> 0]
              ELSE [x |-> PoolFunds, y |-> PoolFunds, lp |-> 0]]
  /\ lp_supply = 0
  /\ last = [op |-> "Initialize", res |-> "Ok", step |-> "ok", cpis |-> Initialize_cpis,
             pre |-> 0, arg |-> 0, n |-> <<>>, moved |-> <<0, 0>>,
             lead |-> InitializeDiscriminator, call |-> InitializeCall(GoodInitialize, 0)]
  /\ loan = NoLoan
  /\ escrow = NoEscrow
  /\ lamports = NoLamports

PoolCall(u, n) ==
  [caller |-> u, own |-> u,
   shape |-> GoodShape(DepositAccountsLen, DepositDataLen), n |-> n]

\* the Deposit instruction on the empty pool
SeedDeposit ==
  \E sd \in Seeds :
    LET n == <<sd[1], sd[2], sd[3], Later>>
        call == DepositCall(PoolCall(Seeder, n))
        o == Deposit_process(call)
    IN /\ last.op = "Initialize"
       /\ tok' = o.S.tok
       /\ lp_supply' = o.S.lp
       /\ last' = Done("Deposit", DepositDiscriminator, call, o, 0, n)
       /\ UNCHANGED <<config, canon, loan, escrow, lamports>>

\* the Deposit instruction on the running pool, by the other user
PoolDeposit ==
  \E a \in Amounts :
    LET n == <<a, PoolFunds, PoolFunds, Later>>
        call == DepositCall(PoolCall(Funded, n))
        o == Deposit_process(call)
    IN /\ last.op = "Deposit" /\ last.res = "Ok"
       /\ tok[Funded].lp = 0
       /\ tok' = o.S.tok
       /\ lp_supply' = o.S.lp
       /\ last' = Done("Deposit", DepositDiscriminator, call, o, 0, n)
       /\ UNCHANGED <<config, canon, loan, escrow, lamports>>

\* the Withdraw instruction by the last depositor, of what was just
\* deposited or of another amount
PoolWithdraw ==
  /\ last.op = "Deposit" /\ last.res = "Ok"
  /\ \E a \in Amounts \cup {last.n[1]} :
       LET u == IF tok[Funded].lp > 0 THEN Funded ELSE Seeder
           n == <<a, 1, 1, Later>>
           k == [PoolCall(u, n) EXCEPT
                   !.shape = GoodShape(WithdrawAccountsLen, WithdrawDataLen)]
           call == WithdrawCall(k)
           o == Withdraw_process(call)
       IN /\ tok' = o.S.tok
          /\ lp_supply' = o.S.lp
          /\ last' = Done("Withdraw", WithdrawDiscriminator, call, o, 0, n)
          /\ UNCHANGED <<config, canon, loan, escrow, lamports>>

PoolNext == SeedDeposit \/ PoolDeposit \/ PoolWithdraw

SpecPool == PoolInit /\ [][PoolNext]_vars

(***************************************************************************)
(* Properties.                                                             *)
(***************************************************************************)
DWS == {"Deposit", "Withdraw", "Swap"}

\* the permission matrix: what state each operation needs
Permits(op, state) ==
  IF op = "Withdraw" THEN state \in {Initialized, WithdrawOnly} ELSE state = Initialized

\* the call got past the state check
PastStateCheck(l) == l.step \notin (ParseSteps \cup LoadSteps \cup {"state"})

LedgerUnchanged == tok' = tok /\ lp_supply' = lp_supply

\* C1 as stated: an operation passes its state check only in a state the
\* matrix permits, and on a Disabled pool every Deposit, Withdraw and Swap
\* call fails with InvalidAccountData and changes no balance and no supply
C1_EveryCallFailsWithStateError ==
  [][ last'.op \in DWS =>
        /\ PastStateCheck(last') => Permits(last'.op, config.state)
        /\ (config.state = Disabled /\ last'.step \notin LoadSteps) =>
             (last'.res = "InvalidAccountData" /\ LedgerUnchanged) ]_vars

\* C1 as amended: an operation passes its state check only in a state the
\* matrix permits; on a Disabled pool every Deposit, Withdraw and Swap call
\* fails and changes no balance and no supply, and every call whose account
\* count and payload are accepted fails with the state error
C1_PermissionMatrix ==
  [][ last'.op \in DWS =>
        /\ PastStateCheck(last') => Permits(last'.op, config.state)
        /\ (config.state = Disabled /\ last'.step \notin LoadSteps) =>
             /\ last'.res # "Ok"
             /\ LedgerUnchanged
             /\ last'.step \notin ParseSteps =>
                  (last'.step = "state" /\ last'.res = "InvalidAccountData") ]_vars

\* a Deposit, Withdraw or Swap on a Disabled pool was refused by the state check
C1_Witness ==
  /\ last.op \in DWS
  /\ config.state = Disabled
  /\ last.step = "state"
  /\ last.res = "InvalidAccountData"

\* C2: on every pool Initialize created, the liquidity-mint account that
\* Deposit's derivation accepts is also accepted by Withdraw's derivation
C2_WithdrawAcceptsDepositMint ==
  config.exists =>
    \A m \in MintKeys :
      mint_derivation([mint_lp |-> m], Deposit_mint_bump(config)) = Pass
        => mint_derivation([mint_lp |-> m], Withdraw_mint_bump(config)) = Pass

\* C3: the LP supply is zero exactly when both vault balances are zero
C3_SupplyZeroIffReservesZero ==
  (lp_supply = 0) <=> (reserve_x = 0 /\ reserve_y = 0)

\* a Withdraw of the whole supply emptied both vaults
C3_Witness ==
  /\ last.op = "Withdraw"
  /\ last.res = "Ok"
  /\ lp_supply = 0
  /\ reserve_x = 0
  /\ reserve_y = 0

\* C4: a successful Swap never lowers the product of the vault balances
C4_ProductNeverShrinks ==
  [][ (last'.op = "Swap" /\ last'.res = "Ok") =>
        reserve_x' * reserve_y' >= reserve_x * reserve_y ]_vars

\* a Swap succeeded and left both vaults funded
C4_Witness ==
  /\ last.op = "Swap"
  /\ last.res = "Ok"
  /\ reserve_x * reserve_y > 0

\* who authorizes a CPI: the config address, with its signer seeds, whatever
\* leaves a vault and every mint; the caller, without seeds, whatever leaves
\* a user account and every burn
Authorized(v) ==
  IF v.src = "vault" \/ v.kind = "MintTo"
    THEN v.auth = "config" /\ v.seeded
    ELSE v.auth = "caller" /\ ~v.seeded

\* C5: every CPI a handler issues is authorized as above; a vault balance
\* decreases only by a successful Withdraw or Swap and the LP supply
\* increases only by a successful Deposit
C5_Authorities ==
  [][ /\ last'.op \in DWS => \A i \in DOMAIN last'.cpis : Authorized(last'.cpis[i])
      /\ (reserve_x' < reserve_x \/ reserve_y' < reserve_y) =>
           (last'.op \in {"Withdraw", "Swap"} /\ last'.res = "Ok")
      /\ lp_supply' > lp_supply => (last'.op = "Deposit" /\ last'.res = "Ok") ]_vars

\* a Withdraw succeeded: two transfers out of the vaults and a burn were issued
C5_Witness ==
  /\ last.op = "Withdraw"
  /\ last.res = "Ok"
  /\ Len(last.cpis) = 3

\* C6: when check (Config::load included) returns an error, the balances,
\* the LP supply and the PoolConfig are as before and no CPI was issued
C6_CheckMutatesNothing ==
  [][ (last'.op \in DWS /\ last'.step \in (LoadSteps \cup CheckSteps)) =>
        (LedgerUnchanged /\ config' = config /\ last'.cpis = <<>>) ]_vars

\* check refused a call on a pool that holds reserves, for slippage
C6_Witness ==
  /\ last.op \in DWS
  /\ last.step = "slippage"
  /\ reserve_x > 0
  /\ lp_supply > 0

C8_StateTerminal ==
  [][ config.state \in {Disabled, WithdrawOnly} => config'.state # Initialized ]_vars

\* C9: from Initialized, set_state succeeds for Disabled and for WithdrawOnly,
\* and the state it leaves is Initialized, Disabled or WithdrawOnly
C9_TransitionsOutOfInitialized ==
  (last.op = "SetState" /\ last.pre = Initialized) =>
    /\ last.arg \in {Disabled, WithdrawOnly} => (last.res = "Ok" /\ config.state = last.arg)
    /\ config.state \in {Initialized, Disabled, WithdrawOnly}

\* C10: the state byte of a PoolConfig is 1, 2 or 3, and set_state rejects
\* every other byte
C10_StateByteValid ==
  /\ config.exists => config.state \in {Initialized, Disabled, WithdrawOnly}
  /\ (last.op = "SetState" /\ last.arg \notin {Initialized, Disabled, WithdrawOnly})
       => last.res # "Ok"

\* C11: every PoolConfig has fee < 10_000: Initialize fails for every fee >=
\* 10_000 and set_fee rejects every fee >= 10_000, both leaving the record
\* as it was
C11_FeeBelowLimit ==
  [][ /\ config'.exists => config'.fee < FeeLimit
      /\ (last'.op = "Initialize" /\ last'.arg >= FeeLimit) =>
           (last'.res # "Ok" /\ config' = config)
      /\ (last'.op = "SetFee" /\ last'.arg >= FeeLimit) =>
           (last'.res = "InvalidAccountData" /\ config' = config) ]_vars

\* set_fee was called with 10_000 on a pool that charges a fee, which it kept
C11_Witness ==
  /\ last.op = "SetFee"
  /\ last.arg = FeeLimit
  /\ last.res = "InvalidAccountData"
  /\ config.fee > 0

\* the payload of the last call has a field that must not be zero: the
\* amount, and for Deposit also max_x and max_y
ZeroField(l) ==
  /\ l.op \in DWS
  /\ \/ l.n[1] = 0
     \/ l.op = "Deposit" /\ (l.n[2] = 0 \/ l.n[3] = 0)

\* C12: a Deposit, Withdraw or Swap whose payload is parsed and has amount
\* zero (Deposit: or max_x or max_y zero) fails with InvalidInstructionData
\* in try_from, before Config::load and before any CPI
C12_ZeroFieldsRejected ==
  [][ (ZeroField(last') /\ last'.step # "count") =>
        /\ last'.res = "InvalidInstructionData"
        /\ last'.step \in ParseSteps
        /\ last'.cpis = <<>>
        /\ LedgerUnchanged ]_vars

\* a Swap of amount zero was rejected on a pool that holds liquidity
C12_Witness ==
  /\ last.op = "Swap"
  /\ last.n[1] = 0
  /\ last.step = "zero"
  /\ lp_supply > 0

\* the last call came at or after its expiration
Expired(l) == l.op \in DWS /\ now >= l.n[4]

\* C13 as stated: a call succeeds only before its expiration, and every call
\* at or after its expiration fails with InvalidArgument before the
\* PoolConfig is read and before any CPI
C13_EveryExpiredCallInvalidArgument ==
  [][ /\ (last'.op \in DWS /\ last'.res = "Ok") => now < last'.n[4]
      /\ Expired(last') =>
           /\ last'.res = "InvalidArgument"
           /\ last'.step \in ParseSteps
           /\ last'.cpis = <<>>
           /\ LedgerUnchanged ]_vars

\* the checks of try_from that come before the deadline check
BeforeDeadline == {"count", "length", "is_x", "zero"}

\* C13: a call succeeds only before its expiration; a call at or after its
\* expiration fails in try_from and changes nothing, with InvalidArgument
\* when its account count, payload length, direction byte and nonzero fields
\* are accepted
C13_DeadlineCheck ==
  [][ /\ (last'.op \in DWS /\ last'.res = "Ok") => now < last'.n[4]
      /\ Expired(last') =>
           /\ last'.res # "Ok"
           /\ last'.step \in ParseSteps
           /\ last'.cpis = <<>>
           /\ LedgerUnchanged
           /\ last'.step \notin BeforeDeadline =>
                (last'.step = "deadline" /\ last'.res = "InvalidArgument") ]_vars

\* a Withdraw came exactly at its expiration and was rejected for it
C13_Witness ==
  /\ last.op = "Withdraw"
  /\ last.n[4] = now
  /\ last.step = "deadline"
  /\ last.res = "InvalidArgument"

\* what the users hold of an asset, all together
UserTotal(t, asset) == t["u1"][asset] + t["u2"][asset]

\* the amounts Deposit::check computes for the payload numbers n in the
\* current state
DepositQuote(n) ==
  IF lp_supply = 0 /\ reserve_x = 0 /\ reserve_y = 0
    THEN [ok |-> TRUE, x |-> n[2], y |-> n[3]]
    ELSE xy_deposit_amounts_from_l(reserve_x, reserve_y, lp_supply, n[1], Decimals)

\* the steps of a call that came as far as the slippage guard
AtSlippage == {"slippage", "zero_out", "cpi", "ok"}

\* C14: a successful Deposit moves x <= max_x and y <= max_y from the users
\* into the vaults; when the computed x exceeds max_x or y exceeds max_y the
\* Deposit fails with InvalidArgument and nothing is transferred or minted
C14_DepositSlippage ==
  [][ last'.op = "Deposit" =>
        /\ last'.res = "Ok" =>
             /\ reserve_x' - reserve_x <= last'.n[2]
             /\ reserve_y' - reserve_y <= last'.n[3]
             /\ reserve_x' - reserve_x = UserTotal(tok, "x") - UserTotal(tok', "x")
             /\ reserve_y' - reserve_y = UserTotal(tok, "y") - UserTotal(tok', "y")
        /\ (/\ last'.step \in AtSlippage
            /\ DepositQuote(last'.n).ok
            /\ \/ DepositQuote(last'.n).x > last'.n[2]
               \/ DepositQuote(last'.n).y > last'.n[3]) =>
             /\ last'.res = "InvalidArgument"
             /\ last'.step = "slippage"
             /\ last'.cpis = <<>>
             /\ LedgerUnchanged ]_vars

\* a later Deposit, its amounts computed by the curve, went through
C14_Witness ==
  /\ last.op = "Deposit"
  /\ last.res = "Ok"
  /\ lp_supply > last.n[1]
  /\ reserve_x > 0

\* C15: a successful Deposit made while the LP supply is zero takes exactly
\* (max_x, max_y) from the caller and leaves the LP supply at the requested
\* amount, which is not zero
C15_FirstDeposit ==
  [][ (last'.op = "Deposit" /\ last'.res = "Ok" /\ lp_supply = 0) =>
        /\ reserve_x' - reserve_x = last'.n[2]
        /\ reserve_y' - reserve_y = last'.n[3]
        /\ UserTotal(tok, "x") - UserTotal(tok', "x") = last'.n[2]
        /\ UserTotal(tok, "y") - UserTotal(tok', "y") = last'.n[3]
        /\ lp_supply' = last'.n[1]
        /\ lp_supply' > 0 ]_vars

\* the first Deposit asked for one LP token and seeded the pool with more of
\* X than of Y
C15_Witness ==
  /\ last.op = "Deposit"
  /\ last.res = "Ok"
  /\ lp_supply = last.n[1]
  /\ reserve_x = last.n[2]
  /\ reserve_y = last.n[3]
  /\ last.n[1] < last.n[2]
  /\ last.n[3] < last.n[2]

\* C16: a successful Withdraw of the whole LP supply pays out exactly the
\* vault balances and leaves both vaults and the LP supply at zero
C16_FullWithdrawal ==
  [][ (last'.op = "Withdraw" /\ last'.res = "Ok" /\ last'.n[1] = lp_supply) =>
        /\ UserTotal(tok', "x") - UserTotal(tok, "x") = reserve_x
        /\ UserTotal(tok', "y") - UserTotal(tok, "y") = reserve_y
        /\ reserve_x' = 0
        /\ reserve_y' = 0
        /\ lp_supply' = 0 ]_vars

\* the whole supply of more than one LP token was withdrawn from a pool that
\* held unequal reserves
C16_Witness ==
  /\ last.op = "Withdraw"
  /\ last.res = "Ok"
  /\ last.n[1] > 1
  /\ lp_supply = 0
  /\ reserve_x + reserve_y = 0
  /\ UserTotal(tok, "x") = InitBal

\* the amounts Withdraw::check computes for the payload numbers n in the
\* current state
WithdrawQuote(n) ==
  IF lp_supply = n[1]
    THEN [ok |-> TRUE, x |-> reserve_x, y |-> reserve_y]
    ELSE xy_withdraw_amounts_from_l(reserve_x, reserve_y, lp_supply, n[1], Decimals)

\* C17: a successful Withdraw pays the users x >= min_x and y >= min_y out of
\* the vaults; when the computed x is below min_x or y below min_y the
\* Withdraw fails with InvalidArgument, nothing leaves the vaults and no LP
\* token is burned
C17_WithdrawSlippage ==
  [][ last'.op = "Withdraw" =>
        /\ last'.res = "Ok" =>
             /\ reserve_x - reserve_x' >= last'.n[2]
             /\ reserve_y - reserve_y' >= last'.n[3]
             /\ reserve_x - reserve_x' = UserTotal(tok', "x") - UserTotal(tok, "x")
             /\ reserve_y - reserve_y' = UserTotal(tok', "y") - UserTotal(tok, "y")
        /\ (/\ last'.step \in AtSlippage
            /\ WithdrawQuote(last'.n).ok
            /\ \/ WithdrawQuote(last'.n).x < last'.n[2]
               \/ WithdrawQuote(last'.n).y < last'.n[3]) =>
             /\ last'.res = "InvalidArgument"
             /\ last'.step = "slippage"
             /\ last'.cpis = <<>>
             /\ LedgerUnchanged ]_vars

\* a part of the supply was withdrawn and paid out of both vaults
C17_Witness ==
  /\ last.op = "Withdraw"
  /\ last.res = "Ok"
  /\ lp_supply > 0
  /\ UserTotal(tok, "x") > 0
  /\ UserTotal(tok, "y") > 0

\* |a|
Abs(a) == IF a < 0 THEN 0 - a ELSE a

\* a deposit that succeeded is followed by a withdrawal that succeeds and
\* burns what the deposit minted
RoundTrip ==
  /\ last.op = "Deposit" /\ last.res = "Ok"
  /\ last'.op = "Withdraw" /\ last'.res = "Ok"
  /\ last'.n[1] = last.n[1]

KeepsRatio(x, y, rx, ry) ==
  Abs(x * ry - y * rx) <= IF rx > ry THEN rx ELSE ry

\* the amount x is the share l / supply of the reserve r within one unit
IsShare(x, r, l, supply) == Abs(x * supply - r * l) <= supply

\* a deposit after the first or a withdrawal of less than the supply succeeds
Proportional ==
  /\ last'.res = "Ok"
  /\ \/ last'.op = "Deposit" /\ lp_supply > 0
     \/ last'.op = "Withdraw" /\ last'.n[1] < lp_supply

RatioKept ==
  [][Proportional =>
       KeepsRatio(Abs(last'.moved[1]), Abs(last'.moved[2]), reserve_x, reserve_y)]_vars

\* the amount the curve solves for a swap of a in the direction of the byte
\* b, in the current state
SwapQuote(b, a) ==
  LET net == (a * (FeeLimit - config.fee)) \div FeeLimit
      rin == IF b = 1 THEN reserve_x ELSE reserve_y
      rout == IF b = 1 THEN reserve_y ELSE reserve_x
  IN IF rin + net = 0 THEN 0 ELSE (rout * net) \div (rin + net)

\* what a Swap in the direction of the byte b paid into the vaults (in) and
\* out of them (out), from what it moved
SwapIn(b, moved) == IF b = 1 THEN moved[1] ELSE moved[2]
SwapOut(b, moved) == IF b = 1 THEN 0 - moved[2] ELSE 0 - moved[1]

\* the steps of a call that came as far as the curve
AtCurve == {"curve", "zero_out", "cpi", "ok"}

\* the pool of 1000 / 2000 at a fee of 30 bps, 100 of x swapped: the output
\* is below 200, the swap passes with that output as min and fails above it
ScenarioB ==
  LET curve == init(1000, 2000, 1000, 30)
      w == swap(curve, TRUE, 100, 1)
  IN /\ w.ok /\ w.deposit = 100
     /\ w.withdraw > 0 /\ w.withdraw < 200
     /\ swap(curve, TRUE, 100, w.withdraw).ok
     /\ \A min \in (w.withdraw + 1)..201 : ~swap(curve, TRUE, 100, min).ok

\* C20: a successful Swap pays out at least min and more than nothing for an
\* input of more than nothing; a Swap whose computed output is below min or
\* zero fails with InvalidArgument, issues no transfer and leaves every
\* balance as it was (so for 1000 / 2000, 30 bps, 100 of x and a min above
\* the computed output)
C20_SwapOutputGuard ==
  [][ last'.op = "Swap" =>
        /\ ScenarioB
        /\ last'.res = "Ok" =>
             /\ SwapOut(last'.arg, last'.moved) >= last'.n[2]
             /\ SwapOut(last'.arg, last'.moved) > 0
             /\ SwapIn(last'.arg, last'.moved) > 0
             /\ SwapOut(last'.arg, last'.moved) = SwapQuote(last'.arg, last'.n[1])
        /\ (/\ last'.step \in AtCurve
            /\ \/ SwapQuote(last'.arg, last'.n[1]) < last'.n[2]
               \/ SwapQuote(last'.arg, last'.n[1]) = 0) =>
             /\ last'.res = "InvalidArgument"
             /\ last'.cpis = <<>>
             /\ LedgerUnchanged ]_vars

\* a Swap whose computed output was not zero but below its min was rejected
C20_Witness ==
  /\ last.op = "Swap"
  /\ last.res = "InvalidArgument"
  /\ last.step = "curve"
  /\ SwapQuote(last.arg, last.n[1]) > 0
  /\ SwapQuote(last.arg, last.n[1]) < last.n[2]

\* a Swap went through
SwapPaid ==
  /\ last.op = "Swap"
  /\ last.res = "Ok"
  /\ SwapOut(last.arg, last.moved) >= last.n[2]

\* the asset a Swap in the direction of the byte b takes in, and pays out
SwapAssetIn(b) == IF b = 1 THEN "x" ELSE "y"
SwapAssetOut(b) == IF b = 1 THEN "y" ELSE "x"

\* the two transfers of a Swap as they were issued: the user's, signed by
\* the caller, then the vault's, signed with the config seeds
SwapTransfers ==
  << [kind |-> "Transfer", src |-> "user", auth |-> "caller", seeded |-> FALSE],
     [kind |-> "Transfer", src |-> "vault", auth |-> "config", seeded |-> TRUE] >>

C22_Dispatch ==
  [][ last'.lead # Direct =>
        /\ last'.lead = 0 <=> last'.op = "Initialize"
        /\ last'.lead = 1 <=> last'.op = "Deposit"
        /\ last'.lead = 2 <=> last'.op = "Withdraw"
        /\ last'.lead = 3 <=> last'.op = "Swap"
        /\ last'.lead \notin 0..3 =>
             /\ last'.res = "InvalidInstructionData"
             /\ last'.cpis = <<>>
             /\ config' = config
             /\ LedgerUnchanged ]_vars

\* empty instruction data was sent to a pool that holds tokens
C22_Witness ==
  /\ last.lead = NoData
  /\ last.res = "InvalidInstructionData"
  /\ config.exists
  /\ reserve_x > 0

\* the number of accounts an instruction takes
AccountsLen(op) ==
  CASE op = "Initialize" -> InitializeAccountsLen
    [] op = "Deposit" -> DepositAccountsLen
    [] op = "Withdraw" -> WithdrawAccountsLen
    [] op = "Swap" -> SwapAccountsLen

\* C23: an Initialize, Deposit, Withdraw or Swap whose account list has not
\* exactly 5, 9, 9, 7 accounts fails with NotEnoughAccountKeys, whatever its
\* payload is (of a wrong length, with a zero field, expired), issues no CPI
\* and changes nothing
C23_AccountCountFirst ==
  [][ (/\ last'.op \in DWS \cup {"Initialize"}
       /\ last'.call.n_accounts # AccountsLen(last'.op)) =>
        /\ last'.res = "NotEnoughAccountKeys"
        /\ last'.step = "count"
        /\ last'.cpis = <<>>
        /\ config' = config
        /\ LedgerUnchanged ]_vars

\* a Deposit with a short account list and a deadline that has passed got
\* the account-count error
C23_Witness ==
  /\ last.op = "Deposit"
  /\ last.call.n_accounts < DepositAccountsLen
  /\ last.call.data_len = DepositDataLen
  /\ last.n[4] <= Now
  /\ last.res = "NotEnoughAccountKeys"

\* calls with a wrong account count and a payload of a wrong length, or with
\* a zero amount, were made
CountAndPayloadWrong ==
  /\ last.res = "NotEnoughAccountKeys"
  /\ \/ last.op = "Swap" /\ last.call.data_len # SwapDataLen
     \/ last.op = "Withdraw" /\ last.n[1] = 0
     \/ last.op = "Initialize" /\ last.call.data_len # InitializeDataLen

\* the payload lengths an instruction takes
DataLens(op) ==
  CASE op = "Initialize" -> {InitializeDataLenWithAuthority, InitializeDataLen}
    [] op = "Deposit" -> {DepositDataLen}
    [] op = "Withdraw" -> {WithdrawDataLen}
    [] op = "Swap" -> {SwapDataLen}

\* the instruction had the right number of accounts
CountRight == last'.call.n_accounts = AccountsLen(last'.op)

\* C24: with the right number of accounts, a Deposit or Withdraw payload
\* that has not 32 bytes, a Swap payload that has not 25 bytes or whose
\* first byte is neither 0 nor 1, and an Initialize payload that has
\* neither 106 nor 74 bytes are rejected with InvalidInstructionData and
\* change nothing; only payloads of these lengths get past the parser; an
\* Initialize that succeeds with 74 bytes stores the all-zero authority,
\* whatever follows the payload, and one with 106 bytes the authority given
C24_PayloadShape ==
  [][ (last'.op \in DWS \cup {"Initialize"} /\ CountRight) =>
        /\ (\/ last'.call.data_len \notin DataLens(last'.op)
            \/ last'.op = "Swap" /\ last'.arg \notin {0, 1}) =>
             /\ last'.res = "InvalidInstructionData"
             /\ last'.step \in {"length", "is_x"}
             /\ last'.cpis = <<>>
             /\ config' = config
             /\ LedgerUnchanged
        /\ last'.step \notin {"length", "is_x"} =>
             /\ last'.call.data_len \in DataLens(last'.op)
             /\ last'.op = "Swap" => last'.arg \in {0, 1}
        /\ (last'.op = "Initialize" /\ last'.res = "Ok") =>
             /\ last'.call.data_len = InitializeDataLen =>
                  config'.authority = ZeroBytes
             /\ last'.call.data_len = InitializeDataLenWithAuthority =>
                  config'.authority = last'.call.trailing ]_vars

\* an Initialize with the short payload, followed in memory by bytes that
\* are not zero, created a pool without an admin
C24_Witness ==
  /\ last.op = "Initialize"
  /\ last.res = "Ok"
  /\ last.call.data_len = InitializeDataLen
  /\ last.call.trailing # ZeroBytes
  /\ config.authority = ZeroBytes

\* C25: a Deposit, Withdraw or Swap that gets past its parser with a config
\* account of another data length fails with InvalidAccountData, and with
\* one of the right length that another program owns with
\* InvalidAccountOwner, whatever the state of the pool is, without a CPI
\* and without a change of any balance, of the LP supply or of the config
C25_ConfigLoad ==
  [][ (last'.op \in DWS /\ last'.step \notin ParseSteps) =>
        /\ last'.call.cfg = "badlen" =>
             /\ last'.res = "InvalidAccountData"
             /\ last'.step = "load_len"
        /\ last'.call.cfg = "badowner" =>
             /\ last'.res = "InvalidAccountOwner"
             /\ last'.step = "load_owner"
        /\ last'.call.cfg # "pool" =>
             /\ last'.cpis = <<>>
             /\ config' = config
             /\ LedgerUnchanged
        /\ last'.step \in LoadSteps =>
             \/ last'.call.cfg # "pool"
             \/ ~config.exists ]_vars

\* a Swap on a disabled pool that holds tokens passed an account of another
\* program as config and got the owner error
C25_Witness ==
  /\ last.op = "Swap"
  /\ last.call.cfg = "badowner"
  /\ last.res = "InvalidAccountOwner"
  /\ config.state = Disabled
  /\ reserve_x > 0

\* the Initialize call c passes as liquidity mint another account than the
\* one derived from its config account's key, or as config another account
\* than the one derived from the seed and the mints of its payload
Misaddressed(c) ==
  \/ c.mint_lp # mint_lp_address(c.config).key
  \/ c.config # config_address(c.seed, c.mint_x, c.mint_y).key

\* C26: an Initialize that gets past its parser with a liquidity mint or a
\* config account that is not at its derived address fails (with
\* InvalidInstructionData) before its first CPI, so that no account is
\* created, and leaves the config as it was
C26_InitializeAddresses ==
  [][ (/\ last'.op = "Initialize"
       /\ last'.step \notin ParseSteps
       /\ Misaddressed(last'.call)) =>
        /\ last'.res = "InvalidInstructionData"
        /\ last'.step \in {"mint_lp", "config"}
        /\ last'.cpis = <<>>
        /\ config' = config
        /\ LedgerUnchanged ]_vars

\* before the pool existed, an Initialize passed a config account that its
\* payload does not derive, with the liquidity mint of that account
C26_Witness ==
  /\ last.op = "Initialize"
  /\ last.step = "config"
  /\ last.call.mint_lp = mint_lp_address(last.call.config).key
  /\ last.call.config # ConfigKey
  /\ ~config.exists

\* C27: after a successful Initialize the config exists with state
\* Initialized, the seed, the two mints and the fee of the payload, the
\* authority of the payload (all-zero for the short payload), and in each of
\* its four bump fields the bump find_program_address yields for the
\* address of that name
C27_InitializeWrites ==
  [][ (last'.op = "Initialize" /\ last'.res = "Ok") =>
        /\ config'.exists
        /\ config'.state = Initialized
        /\ config'.seed = last'.call.seed
        /\ config'.mint_x = last'.call.mint_x
        /\ config'.mint_y = last'.call.mint_y
        /\ config'.authority = IF last'.call.data_len = InitializeDataLenWithAuthority
                                 THEN last'.call.trailing ELSE ZeroBytes
        /\ config'.fee = last'.call.fee
        /\ config'.config_bump = canon["config"]
        /\ config'.vault_x_bump = canon["vault_x"]
        /\ config'.vault_y_bump = canon["vault_y"]
        /\ config'.mint_lp_bump = canon["mint_lp"] ]_vars

\* an Initialize that names an admin and a fee created the pool, where the
\* four addresses do not all have the same bump
C27_Witness ==
  /\ last.op = "Initialize"
  /\ last.res = "Ok"
  /\ config.authority = Admin
  /\ config.fee > 0
  /\ config.mint_x # config.mint_y
  /\ canon["config"] # canon["mint_lp"]
  /\ canon["vault_x"] # canon["vault_y"]

\* C28: a config that exists is never deleted, and an Initialize made when
\* the config exists fails and leaves every field of it, a state changed
\* since its creation included, as it was
C28_CreatedOnce ==
  [][ /\ config.exists => config'.exists
      /\ (last'.op = "Initialize" /\ config.exists) =>
           /\ last'.res # "Ok"
           /\ config' = config ]_vars

\* a well-formed Initialize for a pool that was created and then disabled
\* failed when it tried to create the mint's account
C28_Witness ==
  /\ last.op = "Initialize"
  /\ last.res = "AccountAlreadyInUse"
  /\ Len(last.cpis) = 1
  /\ config.exists
  /\ config.state = Disabled

\* C29: a Deposit, a Withdraw or a Swap, whether it succeeds or fails,
\* leaves every field of the config (state, seed, authority, mints, fee,
\* bumps) as it was
C29_ConfigReadOnly ==
  [][last'.op \in DWS => config' = config]_vars

\* the whole liquidity of a pool with a fee was withdrawn and the config
\* still is as Initialize wrote it
C29_Witness ==
  /\ last.op = "Withdraw"
  /\ last.res = "Ok"
  /\ lp_supply = 0
  /\ config.exists
  /\ config.state = Initialized
  /\ config.fee > 0
  /\ config.seed = PoolSeed

(***************************************************************************)
(* The flash-loan program (anchor-flash-loan/src/lib.rs).                  *)
(*                                                                         *)
(* A batch is the list of top-level instructions of one transaction.  An   *)
(* instruction names its program, carries data whose first eight bytes     *)
(* are a discriminator and whose next eight are read as an amount, and     *)
(* lists accounts.  The instructions sysvar shows every handler, whether   *)
(* entered from the batch or from another program's instruction, the       *)
(* batch and the index of the top-level instruction that is executing.     *)
(***************************************************************************)
\* longest batch
MaxBatch == 3
\* tokens the protocol account holds when the batch starts
LoanFunds == 40
\* largest amount a borrow asks for
MaxLoan == 39
\* tokens the borrower account holds when the batch starts
BorrowerFunds == 2
\* bits of the model's u64; its u128 has twice as many
U64Bits == 10

\* crate::ID, and a program that is not this one
ThisProgram == "flash_loan"
OtherProgram == "other_program"

\* the borrower's and the protocol's associated token accounts of the mint
BorrowerAta == "borrower_ata"
ProtocolAta == "protocol_ata"
StrayAta == "stray_ata"
\* an account list too short to have the entry
NoKey == "none"
\* instruction data too short to hold an amount after the discriminator
NoAmount == 0 - 1

FEE_BPS == 500
BPS_DENOMINATOR == 10000

\* u64::MAX and u128::MAX
U64Max == 2 ^ U64Bits - 1
U128Max == 2 ^ (2 * U64Bits) - 1

\* the smallest amount with a nonzero fee
FeeStep == BPS_DENOMINATOR \div FEE_BPS

\* the amounts a borrow asks for
LoanAmounts == {0, 1, FeeStep, MaxLoan}

\* the instructions a batch is made of: `name' is the discriminator in
\* data[0..8], `amount' is data[8..16], accounts3 and accounts4 are the
\* fourth and fifth account, `invokes' is the amount of the borrow the
\* instruction's program invokes while it runs (0: it invokes none)
BorrowInstructions ==
  {[program_id |-> ThisProgram, name |-> "borrow", amount |-> a,
    accounts3 |-> BorrowerAta, accounts4 |-> ProtocolAta, invokes |-> 0] : a \in LoanAmounts}

RepayInstructions ==
  {[program_id |-> ThisProgram, name |-> "repay", amount |-> NoAmount,
    accounts3 |-> k[1], accounts4 |-> k[2], invokes |-> 0] :
      k \in {<<BorrowerAta, ProtocolAta>>, <<StrayAta, ProtocolAta>>,
             <<BorrowerAta, StrayAta>>, <<NoKey, NoKey>>}}

OtherInstructions ==
  {[program_id |-> OtherProgram, name |-> k[1], amount |-> k[2],
    accounts3 |-> BorrowerAta, accounts4 |-> ProtocolAta, invokes |-> 0] :
      k \in {<<"other", NoAmount>>, <<"other", 0>>, <<"other", 1>>, <<"other", U64Max>>,
             <<"repay", NoAmount>>}}

InvokingInstructions ==
  {[program_id |-> OtherProgram, name |-> "other", amount |-> 0,
    accounts3 |-> BorrowerAta, accounts4 |-> ProtocolAta, invokes |-> a] :
      a \in {1, FeeStep}}

Instructions ==
  BorrowInstructions \cup RepayInstructions \cup OtherInstructions \cup InvokingInstructions

RECURSIVE BatchesOf(_)
BatchesOf(n) ==
  IF n = 0 THEN {<<>>}
  ELSE {Append(b, i) : b \in BatchesOf(n - 1), i \in Instructions}

Batches == UNION {BatchesOf(n) : n \in 1..MaxBatch}

\* the token program's Transfer between the two token accounts
LoanTransfer(bal, from, to, amount) ==
  IF bal[from] < amount THEN [res |-> "InsufficientFunds", bal |-> bal]
  ELSE [res |-> "Ok",
        bal |-> [a \in DOMAIN bal |->
                   IF from = to THEN bal[a]
                   ELSE IF a = from THEN bal[a] - amount
                   ELSE IF a = to THEN bal[a] + amount
                   ELSE bal[a]]]

\* the account constraints of Loan: both token accounts are the associated
\* token accounts of the mint, of the borrower and of the protocol
Loan(borrower_ata, protocol_ata) ==
  borrower_ata = BorrowerAta /\ protocol_ata = ProtocolAta

\* borrow, entered with the accounts given while top-level instruction
\* current_index of `instructions' is executing
borrow(instructions, current_index, borrower_ata, protocol_ata, amount, bal) ==
  LET repay_instruction == instructions[Len(instructions)]
      fail(e) == [res |-> e, bal |-> bal]
  IN IF ~Loan(borrower_ata, protocol_ata) THEN fail("ConstraintViolated")
     ELSE IF ~(amount > 0) THEN fail("InvalidAmount")
     ELSE IF current_index # 0 THEN fail("InvalidIx")
     ELSE IF repay_instruction.program_id # ThisProgram THEN fail("InvalidProgram")
     ELSE IF repay_instruction.name # "repay" THEN fail("InvalidIx")
     ELSE IF repay_instruction.accounts3 # borrower_ata THEN fail("InvalidBorrowerAta")
     ELSE IF repay_instruction.accounts4 # protocol_ata THEN fail("InvalidProtocolAta")
     ELSE LoanTransfer(bal, protocol_ata, borrower_ata, amount)

\* repay, were amount + fee to wrap around the 64-bit range
repay_wrapping(instructions, borrower_ata, protocol_ata, bal) ==
  LET borrow_instruction == instructions[1]
      amount == borrow_instruction.amount
      fee == (amount * FEE_BPS) \div BPS_DENOMINATOR
      fail(e) == [res |-> e, bal |-> bal]
  IN IF ~Loan(borrower_ata, protocol_ata) THEN fail("ConstraintViolated")
     ELSE IF amount = NoAmount THEN fail("Panicked")
     ELSE IF amount * FEE_BPS > U128Max \/ fee > U64Max THEN fail("Overflow")
     ELSE LoanTransfer(bal, borrower_ata, protocol_ata, (amount + fee) % (U64Max + 1))

\* repay: the amount is read from the data of instruction 0, whatever that
\* instruction is
repay(instructions, borrower_ata, protocol_ata, bal) ==
  LET borrow_instruction == instructions[1]
      amount == borrow_instruction.amount
      fee == (amount * FEE_BPS) \div BPS_DENOMINATOR
      fail(e) == [res |-> e, bal |-> bal]
  IN IF ~Loan(borrower_ata, protocol_ata) THEN fail("ConstraintViolated")
     ELSE IF amount = NoAmount THEN fail("Panicked")
     ELSE IF amount * FEE_BPS > U128Max \/ fee > U64Max THEN fail("Overflow")
     ELSE IF amount + fee > U64Max THEN fail("Overflow")
     ELSE LoanTransfer(bal, borrower_ata, protocol_ata, amount + fee)

\* the ledger when a batch starts
LoanLedger == [protocol_ata |-> LoanFunds, borrower_ata |-> BorrowerFunds, stray_ata |-> 0]

\* the state after one handler has run inside top-level instruction loan.pc:
\* an error ends the batch and undoes everything the batch did; lent is
\* what the batch has borrowed so far
Ran(op, via, amount, o) ==
  [batch |-> loan.batch,
   pc |-> IF o.res = "Ok" THEN loan.pc + 1 ELSE loan.pc,
   status |-> IF o.res # "Ok" THEN "failed"
              ELSE IF loan.pc = Len(loan.batch) THEN "done" ELSE "running",
   bal |-> IF o.res = "Ok" THEN o.bal ELSE LoanLedger,
   lent |-> IF o.res # "Ok" THEN 0
            ELSE IF op = "borrow" THEN loan.lent + amount ELSE loan.lent,
   ran |-> [op |-> op, res |-> o.res, via |-> via, index |-> loan.pc - 1,
            amount |-> amount, before |-> loan.bal]]

Current == loan.batch[loan.pc]

Running == loan.status = "running"

\* a borrow instruction of the batch
Borrow ==
  /\ Running
  /\ Current.program_id = ThisProgram /\ Current.name = "borrow"
  /\ loan' = Ran("borrow", "instruction", Current.amount,
                 borrow(loan.batch, loan.pc - 1, Current.accounts3, Current.accounts4,
                        Current.amount, loan.bal))
  /\ UNCHANGED <<config, tok, lp_supply, canon, last, escrow, lamports>>

\* a repay instruction of the batch
Repay ==
  /\ Running
  /\ Current.program_id = ThisProgram /\ Current.name = "repay"
  /\ loan' = Ran("repay", "instruction", 0,
                 repay(loan.batch, Current.accounts3, Current.accounts4, loan.bal))
  /\ UNCHANGED <<config, tok, lp_supply, canon, last, escrow, lamports>>

\* an instruction of another program that leaves the loan program alone
Foreign ==
  /\ Running
  /\ Current.program_id = OtherProgram /\ Current.invokes = 0
  /\ loan' = Ran("other", "instruction", 0, [res |-> "Ok", bal |-> loan.bal])
  /\ UNCHANGED <<config, tok, lp_supply, canon, last, escrow, lamports>>

\* an instruction of another program that invokes borrow: the sysvar shows
\* borrow the index of the invoking instruction
InvokedBorrow ==
  /\ Running
  /\ Current.program_id = OtherProgram /\ Current.invokes > 0
  /\ loan' = Ran("borrow", "invoked", Current.invokes,
                 borrow(loan.batch, loan.pc - 1, BorrowerAta, ProtocolAta,
                        Current.invokes, loan.bal))
  /\ UNCHANGED <<config, tok, lp_supply, canon, last, escrow, lamports>>

LoanInit ==
  /\ config = NoConfig
  /\ tok = [h \in Holders |-> [x |-> 0, y |-> 0, lp |-> 0]]
  /\ lp_supply = 0
  /\ canon = [k \in PdaKinds |-> 255]
  /\ last = [op |-> "None", res |-> "Ok", step |-> "none", cpis |-> <<>>,
             pre |-> 0, arg |-> 0, n |-> <<>>, moved |-> <<0, 0>>,
             lead |-> Direct, call |-> <<>>]
  /\ escrow = NoEscrow
  /\ lamports = NoLamports
  /\ \E b \in Batches :
       loan = [batch |-> b, pc |-> 1, status |-> "running", bal |-> LoanLedger,
               lent |-> 0,
               ran |-> [op |-> "none", res |-> "Ok", via |-> "none", index |-> 0,
                        amount |-> 0, before |-> LoanLedger]]

LoanNext == Borrow \/ Repay \/ Foreign \/ InvokedBorrow

SpecLoan == LoanInit /\ [][LoanNext]_vars

\* the last instruction of the batch is this program's repay naming the
\* token accounts the loan is made between
EndsInRepay ==
  LET r == loan.batch[Len(loan.batch)]
  IN /\ r.program_id = ThisProgram /\ r.name = "repay"
     /\ r.accounts3 = BorrowerAta /\ r.accounts4 = ProtocolAta

\* the borrow that ran is instruction 0 of the batch
BorrowIsFirst ==
  /\ loan.ran.via = "instruction" /\ loan.ran.index = 0
  /\ loan.batch[1].program_id = ThisProgram /\ loan.batch[1].name = "borrow"

BorrowRan == loan.status # "none" /\ loan.ran.op = "borrow"

\* C30: a borrow that succeeds is instruction 0 of the batch, asks for a
\* nonzero amount and is in a batch whose last instruction is this
\* program's repay naming the same borrower and protocol token accounts;
\* a borrow that fails leaves the protocol account with all the funds it
\* held when the batch started.
C30_BorrowPaired ==
  BorrowRan =>
    IF loan.ran.res = "Ok"
      THEN BorrowIsFirst /\ loan.ran.amount > 0 /\ EndsInRepay
      ELSE loan.bal[ProtocolAta] >= LoanLedger[ProtocolAta]

RepayRan == loan.status # "none" /\ loan.ran.op = "repay"

\* instruction 0 of the batch is this program's borrow
StartsWithBorrow ==
  loan.batch[1].program_id = ThisProgram /\ loan.batch[1].name = "borrow"

\* C31: a repay that succeeds is in a batch whose instruction 0 is this
\* program's borrow; in any other batch repay is rejected.
C31_RepayPaired ==
  (RepayRan /\ loan.ran.res = "Ok") => StartsWithBorrow

\* C32: in Deposit, Withdraw and Swap an error comes no later than the first
\* transfer of the execute phase: a call that fails has issued at most one
\* CPI, so no second transfer, LP mint or LP burn returns an error.
C32_FirstTransferFailsLast ==
  [][(last'.op \in DWS /\ last'.res # "Ok") => Len(last'.cpis) <= 1]_vars

\* Initialize has rejected the fee of its payload
FeeRejected == last'.op = "Initialize" /\ last'.res # "Ok" /\ last'.step = "set_inner"

\* C33: Initialize rejects a fee of 10_000 or more before any account is
\* created or funded: when the fee is rejected no CPI has been issued and
\* the config is as it was.
C33_FeeCheckedBeforeCreation ==
  [][FeeRejected => (last'.cpis = <<>> /\ config' = config)]_vars

\* the payload of the call asks for no minimum output
MinZero(l) ==
  \/ l.op = "Swap" /\ l.n[2] = 0
  \/ l.op = "Withdraw" /\ (l.n[2] = 0 \/ l.n[3] = 0)

\* C34: a Swap with min zero and a Withdraw with min_x or min_y zero, once
\* its account list is accepted, fails with InvalidInstructionData and moves
\* nothing; a Swap that succeeds pays out at least one unit of the output
\* asset and a Withdraw that succeeds at least one unit of each asset.
C34_OutputFloor ==
  [][ /\ (MinZero(last') /\ last'.step # "count") =>
           (last'.res = "InvalidInstructionData" /\ last'.cpis = <<>> /\ LedgerUnchanged)
      /\ (last'.op = "Swap" /\ last'.res = "Ok") =>
           (last'.n[2] >= 1 /\ SwapOut(last'.arg, last'.moved) >= last'.n[2])
      /\ (last'.op = "Withdraw" /\ last'.res = "Ok") =>
           /\ last'.n[2] >= 1 /\ 0 - last'.moved[1] >= last'.n[2]
           /\ last'.n[3] >= 1 /\ 0 - last'.moved[2] >= last'.n[3] ]_vars

\* a Withdraw asking for no minimum of Y was rejected while its caller held
\* liquidity of a funded pool
C34_Witness ==
  /\ last.op = "Withdraw"
  /\ last.n[1] > 0 /\ last.n[2] > 0 /\ last.n[3] = 0
  /\ last.step = "zero"
  /\ lp_supply > 0 /\ reserve_y > 0

\* the LP balance of every user but u is as it was
OtherLpKept(u) == \A v \in Users \ {u} : tok'[v].lp = tok[v].lp

\* the last instruction was a successful op
Succeeded(op) == last'.op = op /\ last'.res = "Ok"

Fee(a) == (a * FEE_BPS) \div BPS_DENOMINATOR

\* C36: a batch that completes and in which a borrow of amount a succeeded
\* leaves the protocol token account with at least what it held at the
\* start plus floor(a * 500 / 10_000).
C36_Solvency ==
  (loan.status = "done" /\ loan.lent > 0) =>
    loan.bal[ProtocolAta] >= LoanFunds + Fee(loan.lent)

\* the amount repay reads from instruction 0, and what is due on it
Read == loan.batch[1].amount
Due == Read + Fee(Read)

\* the repay instruction that ran (a failed one is still the current one)
RepayInstruction ==
  loan.batch[IF loan.ran.res = "Ok" THEN loan.pc - 1 ELSE loan.pc]

\* the accounts of the repay that ran pass the constraints of Loan, and
\* instruction 0 holds an amount
RepayReads ==
  /\ RepayRan
  /\ Loan(RepayInstruction.accounts3, RepayInstruction.accounts4)
  /\ Read # NoAmount

\* C37: a repay that succeeds has moved exactly a + floor(a * 500 / 10_000)
\* from the borrower account to the protocol account, a being the amount in
\* the data of instruction 0; the product a * 500 never leaves the 128-bit
\* range; when a + fee is beyond the 64-bit range repay fails with Overflow,
\* and when it is within it and the borrower holds it repay succeeds.
C37_RepayAmount ==
  /\ (RepayRan /\ loan.ran.res = "Ok") =>
       /\ loan.bal[ProtocolAta] = loan.ran.before[ProtocolAta] + Due
       /\ loan.bal[BorrowerAta] = loan.ran.before[BorrowerAta] - Due
       /\ Due <= U64Max
  /\ RepayReads =>
       /\ Read * FEE_BPS <= U128Max
       /\ Due > U64Max => loan.ran.res = "Overflow"
       /\ (Due <= U64Max /\ loan.ran.before[BorrowerAta] >= Due) => loan.ran.res = "Ok"

\* a repay went through on a loan large enough to bear a fee
C37_Witness ==
  /\ RepayRan /\ loan.ran.res = "Ok"
  /\ StartsWithBorrow
  /\ Read >= FeeStep /\ Due > Read

(***************************************************************************)
(* The escrow program (pinnochio-escrow).                                  *)
(*                                                                         *)
(* A maker locks an amount of one mint in a vault, the associated token    *)
(* account of the escrow address, and records what it wants in return; a   *)
(* taker pays that and takes the vault, or the maker takes it back.  The   *)
(* account helpers (SignerAccount, MintInterface, TokenAccountInterface,   *)
(* AssociatedTokenAccount, UninitializedAccount, ProgramAccount) see only  *)
(* the accounts they are handed.                                           *)
(***************************************************************************)
\* tokens each party holds of each mint at first
PartyFunds == 2
\* largest amount and largest price of a Make
MaxOffer == 2

TokenA == "token_a"
TokenB == "token_b"
TokenC == "token_c"
EscrowMints == {TokenA, TokenB, TokenC}

Maker == "maker"
Taker == "taker"
Parties == {Maker, Taker}

\* the address derived from ("escrow", maker, seed), and another address
EscrowKey == "escrow_pda"
StrayKey == "stray_key"

\* the escrow account before Make and after it is closed
NoRecord == [exists |-> FALSE, maker |-> "", mint_a |-> "", mint_b |-> "", receive |-> 0]

\* a token account that does not exist
NoVault == [open |-> FALSE, amount |-> 0]

\* SignerAccount::check
SignerAccount_check(signed) == signed

\* UninitializedAccount::check on the escrow account and on a vault
UninitializedAccount_check(exists) == ~exists

\* AssociatedTokenAccount::check: the account handed in is the associated
\* token account of the escrow address for the mint handed in, and, when
\* asked, it is initialized
AssociatedTokenAccount_check(E, vault, mint, initialized) ==
  vault = mint /\ (initialized => E.vaults[vault].open)

\* ProgramAccount::check: the account is owned by the program and has the
\* length of an Escrow
ProgramAccount_check(E, key) == key = EscrowKey /\ E.record.exists

\* find_program_address / create_program_address of ("escrow", maker, seed)
escrow_pda(maker) == IF maker = Maker THEN EscrowKey ELSE StrayKey

\* a token transfer between two parties' accounts of one mint, or from a
\* vault; fails when the source holds less
EscrowOutcome(res, E) == [res |-> res, E |-> E]

PartyPays(E, from, to, mint, amount) ==
  IF E.bal[from][mint] < amount THEN EscrowOutcome("InsufficientFunds", E)
  ELSE EscrowOutcome("Ok",
         IF from = to THEN E
         ELSE [E EXCEPT !.bal[from][mint] = @ - amount, !.bal[to][mint] = @ + amount])

\* the vault of `mint' pays its whole balance to a party and is closed
VaultPaysOut(E, mint, to) ==
  [E EXCEPT !.bal[to][mint] = @ + E.vaults[mint].amount, !.vaults[mint] = NoVault]

\* Make::check
Make_check(E, call) ==
  IF ~SignerAccount_check(call.signed) THEN "MissingRequiredSignature"
  ELSE IF ~UninitializedAccount_check(call.escrow = EscrowKey /\ E.record.exists)
    THEN "AccountAlreadyInitialized"
  ELSE IF ~UninitializedAccount_check(E.vaults[call.vault].open)
    THEN "AccountAlreadyInitialized"
  ELSE IF call.receive = 0 \/ call.amount = 0 THEN "InvalidInstructionData"
  ELSE IF call.escrow # escrow_pda(Maker) THEN "InvalidSeeds"
  ELSE IF ~AssociatedTokenAccount_check(E, call.vault, call.mint_a, FALSE)
    THEN "InvalidAccountData"
  ELSE "Ok"

\* Make::process: check, init (the escrow record, the vault), the transfer
Make_process(E, call) ==
  LET made == [E EXCEPT !.record = [exists |-> TRUE, maker |-> Maker,
                                    mint_a |-> call.mint_a, mint_b |-> call.mint_b,
                                    receive |-> call.receive],
                        !.vaults[call.vault] = [open |-> TRUE, amount |-> call.amount],
                        !.bal[Maker][call.mint_a] = @ - call.amount]
  IN IF Make_check(E, call) # "Ok" THEN EscrowOutcome(Make_check(E, call), E)
     ELSE IF E.bal[Maker][call.mint_a] < call.amount
       THEN EscrowOutcome("InsufficientFunds", E)
     ELSE EscrowOutcome("Ok", made)

\* Take::check
Take_check(E, call) ==
  IF ~SignerAccount_check(call.signed) THEN "MissingRequiredSignature"
  ELSE IF ~AssociatedTokenAccount_check(E, call.vault, call.mint_a, TRUE)
    THEN "InvalidAccountData"
  ELSE IF ~ProgramAccount_check(E, call.escrow) THEN "InvalidAccountOwner"
  ELSE IF call.escrow # escrow_pda(call.maker) THEN "InvalidAccountOwner"
  ELSE "Ok"

\* Take::process: check, init, the taker pays `receive' of the mint handed
\* in as mint_b, the vault handed in pays out to the taker and is closed,
\* the escrow is closed; an error undoes everything
Take_process(E, call) ==
  LET paid == PartyPays(E, Taker, E.record.maker, call.mint_b, E.record.receive)
  IN IF Take_check(E, call) # "Ok" THEN EscrowOutcome(Take_check(E, call), E)
     ELSE IF paid.res # "Ok" THEN EscrowOutcome(paid.res, E)
     ELSE EscrowOutcome("Ok", [VaultPaysOut(paid.E, call.vault, Taker)
                                 EXCEPT !.record = NoRecord])

\* Refund::check
Refund_check(E, call) ==
  IF ~SignerAccount_check(call.signed) THEN "MissingRequiredSignature"
  ELSE IF ~AssociatedTokenAccount_check(E, call.vault, call.mint_a, TRUE)
    THEN "InvalidAccountData"
  ELSE IF ~ProgramAccount_check(E, call.escrow) THEN "InvalidAccountOwner"
  ELSE IF call.escrow # escrow_pda(call.maker) THEN "InvalidAccountOwner"
  ELSE "Ok"

\* Refund::process: check, init, the vault handed in pays out to the maker
\* handed in and is closed, the escrow is closed
Refund_process(E, call) ==
  IF Refund_check(E, call) # "Ok" THEN EscrowOutcome(Refund_check(E, call), E)
  ELSE EscrowOutcome("Ok", [VaultPaysOut(E, call.vault, call.maker)
                              EXCEPT !.record = NoRecord])

\* the calls: the signed ones for the escrow of the maker with every
\* choice of mints, vault and numbers, and one call each without the
\* signature, with the other party as maker, and with another escrow account
Slips == {"unsigned", "maker", "escrow"}

Slipped(call, s) ==
  [call EXCEPT !.signed = s # "unsigned",
               !.maker = IF s = "maker" THEN Taker ELSE Maker,
               !.escrow = IF s = "escrow" THEN StrayKey ELSE EscrowKey]

MakeCalls ==
  LET plain == {[signed |-> TRUE, maker |-> Maker, escrow |-> EscrowKey,
                 mint_a |-> a, mint_b |-> TokenB, vault |-> v, amount |-> n,
                 receive |-> r] :
                  a \in {TokenA, TokenC}, v \in {TokenA, TokenC},
                  n \in 0..MaxOffer, r \in 0..MaxOffer}
  IN plain \cup {Slipped(c, s) : s \in Slips \ {"maker"},
                   c \in {k \in plain : k.mint_a = TokenA /\ k.vault = TokenA
                                        /\ k.amount = 1 /\ k.receive = 1}}

TakeCalls ==
  LET plain == {[signed |-> TRUE, maker |-> Maker, escrow |-> EscrowKey,
                 mint_a |-> a, mint_b |-> b, vault |-> v] :
                  a \in {TokenA, TokenC}, b \in {TokenB, TokenC}, v \in {TokenA, TokenC}}
  IN plain \cup {Slipped(c, s) : s \in Slips,
                   c \in {k \in plain : k.mint_a = TokenA /\ k.vault = TokenA
                                        /\ k.mint_b = TokenB}}

RefundCalls ==
  LET plain == {[signed |-> TRUE, maker |-> Maker, escrow |-> EscrowKey,
                 mint_a |-> a, vault |-> v] :
                  a \in {TokenA, TokenC}, v \in {TokenA, TokenC}}
  IN plain \cup {Slipped(c, s) : s \in Slips,
                   c \in {k \in plain : k.mint_a = TokenA /\ k.vault = TokenA}}

\* the state after a call: an error leaves everything but the record of the
\* call as it was
Called(op, call, o) ==
  [o.E EXCEPT !.ran = [op |-> op, res |-> o.res, call |-> call]]

Make ==
  /\ escrow.status = "open"
  /\ \E call \in MakeCalls : escrow' = Called("Make", call, Make_process(escrow, call))
  /\ UNCHANGED <<config, tok, lp_supply, canon, last, loan, lamports>>

Take ==
  /\ escrow.status = "open"
  /\ \E call \in TakeCalls : escrow' = Called("Take", call, Take_process(escrow, call))
  /\ UNCHANGED <<config, tok, lp_supply, canon, last, loan, lamports>>

Refund ==
  /\ escrow.status = "open"
  /\ \E call \in RefundCalls :
       escrow' = Called("Refund", call, Refund_process(escrow, call))
  /\ UNCHANGED <<config, tok, lp_supply, canon, last, loan, lamports>>

\* anyone creates the associated token account of the escrow address for a
\* mint (the associated token program asks for no signature of the owner)
CreateAta ==
  /\ escrow.status = "open"
  /\ \E m \in {TokenA, TokenC} :
       /\ ~escrow.vaults[m].open
       /\ escrow' = [escrow EXCEPT !.vaults[m] = [open |-> TRUE, amount |-> 0],
                                   !.ran = [op |-> "CreateAta", res |-> "Ok",
                                            call |-> [mint_a |-> m]]]
  /\ UNCHANGED <<config, tok, lp_supply, canon, last, loan, lamports>>

EscrowInit ==
  /\ config = NoConfig
  /\ tok = [h \in Holders |-> [x |-> 0, y |-> 0, lp |-> 0]]
  /\ lp_supply = 0
  /\ canon = [k \in PdaKinds |-> 255]
  /\ last = [op |-> "None", res |-> "Ok", step |-> "none", cpis |-> <<>>,
             pre |-> 0, arg |-> 0, n |-> <<>>, moved |-> <<0, 0>>,
             lead |-> Direct, call |-> <<>>]
  /\ loan = NoLoan
  /\ lamports = NoLamports
  /\ escrow = [status |-> "open", record |-> NoRecord,
               vaults |-> [m \in EscrowMints |-> NoVault],
               bal |-> [p \in Parties |-> [m \in EscrowMints |-> PartyFunds]],
               ran |-> [op |-> "None", res |-> "Ok", call |-> <<>>]]

EscrowNext == Make \/ Take \/ Refund \/ CreateAta

SpecEscrow == EscrowInit /\ [][EscrowNext]_vars

EscrowRan(ops) == escrow.status = "open" /\ escrow'.ran.op \in ops

\* a Take or a Refund has succeeded
Settled == EscrowRan({"Take", "Refund"}) /\ escrow'.ran.res = "Ok"

\* the vault of the recorded mint has paid its whole balance to the party
\* and to no one else
PaidOutTo(who) ==
  LET m == escrow.record.mint_a
  IN /\ escrow'.bal[who][m] = escrow.bal[who][m] + escrow.vaults[m].amount
     /\ \A p \in Parties \ {who} : escrow'.bal[p][m] = escrow.bal[p][m]

\* C38: a successful Take or Refund finds the escrow record, closes it and
\* the vault of the recorded mint, and has paid the vault's whole balance to
\* the taker (Take, the payment to the maker being in another mint) or to
\* the maker (Refund) alone; with the record closed
\* every Take and Refund fails; a Make for an escrow that exists fails.
C38_SettledOnce ==
  [][ /\ Settled =>
           /\ escrow.record.exists /\ ~escrow'.record.exists
           /\ ~escrow'.vaults[escrow.record.mint_a].open
           /\ escrow'.ran.op = "Refund" => PaidOutTo(Maker)
           /\ (escrow'.ran.op = "Take"
                 /\ escrow'.ran.call.mint_b # escrow.record.mint_a) =>
                PaidOutTo(Taker)
      /\ (EscrowRan({"Take", "Refund"}) /\ ~escrow.record.exists) =>
           (escrow'.ran.res # "Ok" /\ escrow'.bal = escrow.bal)
      /\ (EscrowRan({"Make"}) /\ escrow.record.exists
            /\ escrow'.ran.call.escrow = EscrowKey) =>
           (escrow'.ran.res # "Ok" /\ escrow'.record = escrow.record) ]_vars

\* C39: a Take that succeeds was handed the mint_a and the mint_b recorded
\* in the escrow, the maker has received exactly `receive' units of the
\* recorded mint_b and the taker the balance of the vault of mint_a.
C39_TakeBinding ==
  [][ (EscrowRan({"Take"}) /\ escrow'.ran.res = "Ok") =>
        /\ escrow'.ran.call.mint_a = escrow.record.mint_a
        /\ escrow'.ran.call.mint_b = escrow.record.mint_b
        /\ escrow'.bal[Maker][escrow.record.mint_b] =
             escrow.bal[Maker][escrow.record.mint_b] + escrow.record.receive
        /\ PaidOutTo(Taker) ]_vars

(***************************************************************************)
(* The vault programs (pinnochio-vault, anchor-vault).                     *)
(*                                                                         *)
(* An owner deposits lamports in the account at the address derived from   *)
(* ("vault", owner) under the program, and withdraws all of them.  The     *)
(* vault is an account of the system program without data; anyone may      *)
(* transfer lamports to it.                                                *)
(***************************************************************************)
\* rent.minimum_balance(0), the least an account without data may hold
RentMin == 2
\* largest amount of a deposit or of a transfer: one above the rent minimum
MaxDeposit == RentMin + 1
\* lamports each owner holds at first: the largest deposit leaves the owner
\* the rent minimum
OwnerFunds == MaxDeposit + RentMin

Pinocchio == "pinnochio_vault"
Anchor == "anchor_vault"
VaultPrograms == {Pinocchio, Anchor}

Alice == "alice"
Bob == "bob"
Owners == {Alice, Bob}

\* the system account of an owner
Wallet(o) == <<"wallet", o>>

\* find_program_address(["vault", owner], ID)
vault_pda(prog, o) == <<prog, o>>

\* an account that does not belong to the system program
ForeignAccount == <<"token_account", Alice>>

VaultKeys == {vault_pda(p, o) : p \in VaultPrograms, o \in Owners}
SystemAccounts == VaultKeys \cup {Wallet(o) : o \in Owners}

VaultOutcome(res, L) == [res |-> res, L |-> L]

\* the rent rule of the runtime: an account holds nothing or at least the
\* minimum balance
RentExempt(L) == \A a \in SystemAccounts : L.bal[a] = 0 \/ L.bal[a] >= RentMin

\* the Transfer of the system program; the source has signed, as itself or
\* through the seeds of the calling program
system_Transfer(L, from, to, amount, signers) ==
  IF from \notin signers THEN VaultOutcome("MissingRequiredSignature", L)
  ELSE IF L.bal[from] < amount THEN VaultOutcome("InsufficientFunds", L)
  ELSE IF from = to THEN VaultOutcome("Ok", L)
  ELSE VaultOutcome("Ok", [L EXCEPT !.bal[from] = @ - amount, !.bal[to] = @ + amount])

\* the signatures on a call
CallSigners(call) == IF call.signed THEN {Wallet(call.owner)} ELSE {}

\* Deposit::check, were a funded vault let through
vault_Deposit_check_funded(L, call) ==
  IF call.n_accounts # 3 THEN "InvalidArgument"
  ELSE IF call.data_len # 8 THEN "InvalidInstructionData"
  ELSE IF ~call.signed THEN "MissingRequiredSignature"
  ELSE IF call.vault \notin SystemAccounts THEN "InvalidAccountOwner"
  ELSE IF call.vault # vault_pda(Pinocchio, call.owner) THEN "InvalidAccountOwner"
  ELSE IF call.amount = 0 THEN "InvalidInstructionData"
  ELSE "Ok"

\* Deposit::try_from and Deposit::check
vault_Deposit_check(L, call) ==
  IF call.n_accounts # 3 THEN "InvalidArgument"
  ELSE IF call.data_len # 8 THEN "InvalidInstructionData"
  ELSE IF ~call.signed THEN "MissingRequiredSignature"
  ELSE IF call.vault \notin SystemAccounts THEN "InvalidAccountOwner"
  ELSE IF L.bal[call.vault] # 0 THEN "InvalidAccountData"
  ELSE IF call.vault # vault_pda(Pinocchio, call.owner) THEN "InvalidAccountOwner"
  ELSE IF call.amount = 0 THEN "InvalidInstructionData"
  ELSE "Ok"

\* Deposit::process
vault_Deposit_process(L, call) ==
  IF vault_Deposit_check(L, call) # "Ok"
    THEN VaultOutcome(vault_Deposit_check(L, call), L)
  ELSE system_Transfer(L, Wallet(call.owner), call.vault, call.amount,
                       CallSigners(call))

\* Withdraw::try_from and Withdraw::check
vault_Withdraw_check(L, call) ==
  IF call.n_accounts # 3 THEN "InvalidArgument"
  ELSE IF ~call.signed THEN "MissingRequiredSignature"
  ELSE IF call.vault \notin SystemAccounts THEN "InvalidAccountOwner"
  ELSE IF L.bal[call.vault] = 0 THEN "InvalidAccountData"
  ELSE IF call.vault # vault_pda(Pinocchio, call.owner) THEN "InvalidAccountOwner"
  ELSE "Ok"

\* Withdraw::process: the program signs with ("vault", owner, bump)
vault_Withdraw_process(L, call) ==
  IF vault_Withdraw_check(L, call) # "Ok"
    THEN VaultOutcome(vault_Withdraw_check(L, call), L)
  ELSE system_Transfer(L, call.vault, Wallet(call.owner), L.bal[call.vault],
                       CallSigners(call) \cup {vault_pda(Pinocchio, call.owner)})

\* the constraints of VaultAction
VaultAction(call) ==
  IF call.n_accounts # 3 THEN "AccountNotEnoughKeys"
  ELSE IF ~call.signed THEN "AccountNotSigner"
  ELSE IF call.vault # vault_pda(Anchor, call.owner) THEN "ConstraintSeeds"
  ELSE "Ok"

\* anchor_vault::deposit
anchor_vault_deposit(L, call) ==
  IF VaultAction(call) # "Ok" THEN VaultOutcome(VaultAction(call), L)
  ELSE IF call.data_len # 8 THEN VaultOutcome("InstructionDidNotDeserialize", L)
  ELSE IF L.bal[call.vault] # 0 THEN VaultOutcome("VaultAlreadyExists", L)
  ELSE IF ~(call.amount > RentMin) THEN VaultOutcome("InvalidAmount", L)
  ELSE system_Transfer(L, Wallet(call.owner), call.vault, call.amount,
                       CallSigners(call))

\* anchor_vault::withdraw
anchor_vault_withdraw(L, call) ==
  IF VaultAction(call) # "Ok" THEN VaultOutcome(VaultAction(call), L)
  ELSE IF L.bal[call.vault] = 0 THEN VaultOutcome("InvalidAmount", L)
  ELSE system_Transfer(L, call.vault, Wallet(call.owner), L.bal[call.vault],
                       CallSigners(call) \cup {vault_pda(Anchor, call.owner)})

\* the calls to a program: a signing owner with the vault derived from it
\* and an amount, and one call each with another account as the vault (the
\* other owner's vault, the owner's vault under the other program, the
\* owner's own account, an account of another program), without the
\* signature, with an account missing and with a byte of data missing
VaultCalls(prog) ==
  LET plain == {[owner |-> o, signed |-> TRUE, vault |-> vault_pda(prog, o),
                 amount |-> n, n_accounts |-> 3, data_len |-> 8] :
                  o \in Owners, n \in 0..MaxDeposit}
      base == {c \in plain : c.amount = MaxDeposit}
      others(c) == {vault_pda(prog, o) : o \in Owners \ {c.owner}}
                     \cup {vault_pda(p, c.owner) : p \in VaultPrograms \ {prog}}
                     \cup {Wallet(c.owner), ForeignAccount}
  IN plain \cup {[c EXCEPT !.vault = v] : c \in base, v \in UNION {others(k) : k \in base}}
           \cup {[c EXCEPT !.signed = FALSE] : c \in base}
           \cup {[c EXCEPT !.n_accounts = 2] : c \in base}
           \cup {[c EXCEPT !.data_len = 7] : c \in base}

\* Withdraw carries no amount
WithdrawCalls(prog) == {c \in VaultCalls(prog) : c.amount = MaxDeposit}

\* the state after a transaction of one instruction: an error, or a balance
\* the rent rule forbids, leaves the balances as they were
Landed(prog, op, call, L, o) ==
  LET res == IF o.res = "Ok" /\ ~RentExempt(o.L) THEN "InsufficientFundsForRent"
             ELSE o.res
  IN [(IF res = "Ok" THEN o.L ELSE L)
        EXCEPT !.ran = [prog |-> prog, op |-> op, res |-> res, call |-> call]]

VaultDeposit ==
  /\ lamports.status = "open"
  /\ \E call \in VaultCalls(Pinocchio) :
       lamports' = Landed(Pinocchio, "Deposit", call, lamports,
                          vault_Deposit_process(lamports, call))
  /\ UNCHANGED <<config, tok, lp_supply, canon, last, loan, escrow>>

VaultWithdraw ==
  /\ lamports.status = "open"
  /\ \E call \in WithdrawCalls(Pinocchio) :
       lamports' = Landed(Pinocchio, "Withdraw", call, lamports,
                          vault_Withdraw_process(lamports, call))
  /\ UNCHANGED <<config, tok, lp_supply, canon, last, loan, escrow>>

AnchorDeposit ==
  /\ lamports.status = "open"
  /\ \E call \in VaultCalls(Anchor) :
       lamports' = Landed(Anchor, "Deposit", call, lamports,
                          anchor_vault_deposit(lamports, call))
  /\ UNCHANGED <<config, tok, lp_supply, canon, last, loan, escrow>>

AnchorWithdraw ==
  /\ lamports.status = "open"
  /\ \E call \in WithdrawCalls(Anchor) :
       lamports' = Landed(Anchor, "Withdraw", call, lamports,
                          anchor_vault_withdraw(lamports, call))
  /\ UNCHANGED <<config, tok, lp_supply, canon, last, loan, escrow>>

\* an owner sends lamports to a vault with the system program, not through
\* the vault programs
SystemTransfer ==
  /\ lamports.status = "open"
  /\ \E o \in Owners, v \in VaultKeys, n \in {RentMin, MaxDeposit} :
       LET call == [owner |-> o, signed |-> TRUE, vault |-> v, amount |-> n,
                    n_accounts |-> 2, data_len |-> 8]
       IN lamports' = Landed("system", "Transfer", call, lamports,
                             system_Transfer(lamports, Wallet(o), v, n, {Wallet(o)}))
  /\ UNCHANGED <<config, tok, lp_supply, canon, last, loan, escrow>>

VaultInit ==
  /\ config = NoConfig
  /\ tok = [h \in Holders |-> [x |-> 0, y |-> 0, lp |-> 0]]
  /\ lp_supply = 0
  /\ canon = [k \in PdaKinds |-> 255]
  /\ last = [op |-> "None", res |-> "Ok", step |-> "none", cpis |-> <<>>,
             pre |-> 0, arg |-> 0, n |-> <<>>, moved |-> <<0, 0>>,
             lead |-> Direct, call |-> <<>>]
  /\ loan = NoLoan
  /\ escrow = NoEscrow
  /\ lamports = [status |-> "open",
                 bal |-> [a \in SystemAccounts |->
                            IF a \in VaultKeys THEN 0 ELSE OwnerFunds],
                 ran |-> [prog |-> "none", op |-> "None", res |-> "Ok",
                          call |-> <<>>]]

VaultNext ==
  VaultDeposit \/ VaultWithdraw \/ AnchorDeposit \/ AnchorWithdraw \/ SystemTransfer

SpecVault == VaultInit /\ [][VaultNext]_vars

\* a Deposit or a Withdraw of one of the vault programs has run
VaultRan(op) ==
  /\ lamports.status = "open"
  /\ lamports'.ran.prog \in VaultPrograms
  /\ lamports'.ran.op = op

\* C40: a Deposit succeeds only for a signing owner, a nonzero amount and
\* the vault derived from ("vault", owner) holding nothing, and leaves the
\* amount in it; a Withdraw succeeds only for the signing owner of a derived
\* vault that holds something and moves all of it to the owner; a Deposit
\* into a funded vault fails; and the balance of a vault goes down only in a
\* successful Withdraw of the owner it is derived from.
C40_VaultLifecycle ==
  [][ LET ran == lamports'.ran
          call == ran.call
      IN /\ (VaultRan("Deposit") /\ ran.res = "Ok") =>
              /\ call.signed /\ call.amount > 0
              /\ call.vault = vault_pda(ran.prog, call.owner)
              /\ lamports.bal[call.vault] = 0
              /\ lamports'.bal[call.vault] = call.amount
              /\ lamports'.bal[Wallet(call.owner)] =
                   lamports.bal[Wallet(call.owner)] - call.amount
         /\ (VaultRan("Withdraw") /\ ran.res = "Ok") =>
              /\ call.signed
              /\ call.vault = vault_pda(ran.prog, call.owner)
              /\ lamports.bal[call.vault] > 0
              /\ lamports'.bal[call.vault] = 0
              /\ lamports'.bal[Wallet(call.owner)] =
                   lamports.bal[Wallet(call.owner)] + lamports.bal[call.vault]
         /\ (VaultRan("Deposit") /\ call.vault \in VaultKeys
               /\ lamports.bal[call.vault] > 0) =>
              (ran.res # "Ok" /\ lamports'.bal = lamports.bal)
         /\ lamports.status = "open" =>
              \A p \in VaultPrograms, o \in Owners :
                lamports'.bal[vault_pda(p, o)] < lamports.bal[vault_pda(p, o)] =>
                  /\ ran.prog = p /\ ran.op = "Withdraw" /\ ran.res = "Ok"
                  /\ call.owner = o /\ call.signed
                  /\ lamports'.bal[vault_pda(p, o)] = 0 ]_vars

\* a vault has been funded by a Deposit and emptied by the Withdraw of its
\* owner while the other owner's vault stays funded
C40_Witness ==
  /\ lamports.status = "open"
  /\ lamports.ran.prog = Pinocchio /\ lamports.ran.op = "Withdraw"
  /\ lamports.ran.res = "Ok"
  /\ lamports.bal[vault_pda(Pinocchio, lamports.ran.call.owner)] = 0
  /\ lamports.bal[Wallet(lamports.ran.call.owner)] > OwnerFunds
  /\ \E o \in Owners : lamports.bal[vault_pda(Pinocchio, o)] > 0

====
